---- MODULE Spec2Model ----
(***************************************************************************)
(* kuato: the dual-dialect transcript parser (shared/parser.ts) and the    *)
(* relevance-scored, filtered session search (file-based/search-lib.ts).   *)
(*                                                                         *)
(* Strings that the program inspects character by character (message      *)
(* text, tool names, file paths, queries, ids) are sequences of one-       *)
(* character strings.  Strings the program only compares for equality or   *)
(* tests for truthiness (record types, roles, object keys, model names)    *)
(* are TLA+ strings, "" standing for an absent (falsy) value.              *)
(* A Date is its time value in milliseconds; NaN is the time value of an   *)
(* Invalid Date.                                                           *)
(***************************************************************************)
EXTENDS Integers, Sequences, FiniteSets, TLC

VARIABLES
    pc,         \* position of the run: which operation has been applied
    content,    \* parseSessionContent: the transcript, a sequence of lines
    sessionId,  \* parseSessionContent: the optional path argument
    parsed,     \* parseSessionContent: the value returned
    session,    \* scoreRelevance: the ParsedSession scored
    query,      \* scoreRelevance: the query string
    score,      \* scoreRelevance: the value returned
    edit,       \* the last edit made to a user message of `session`
    prevScore,  \* the score returned before that edit
    files,      \* processSessionFiles: the transcripts on disk, in list order
    options,    \* processSessionFiles: the SearchOptions
    now,        \* the clock read by matchesFilters
    results,    \* processSessionFiles: the SearchResult list returned
    verdict,    \* matchesFilters: the value returned
    directories,\* searchSessions: the trees under options.directories
    hits        \* searchSessions: the SearchResult list returned

vars == <<pc, content, sessionId, parsed, session, query, score, edit,
          prevScore, files, options, now, results,
          verdict, directories, hits>>

(***************************************************************************)
(* Bounds of the model.                                                    *)
(***************************************************************************)
MaxLines == 3       \* lines of a transcript given to parseSessionContent
MaxQueryLen == 4    \* characters of a query given to scoreRelevance
MaxMsgs == 2        \* user messages of a session given to scoreRelevance
MaxFiles == 2       \* transcripts in a list given to processSessionFiles
MaxDirs == 2        \* directories in a list given to searchSessions

(***************************************************************************)
(* Strings.                                                                *)
(***************************************************************************)
UpperCase == <<"A", "B", "C", "D", "E", "F", "G", "H", "I", "J", "K", "L", "M",
               "N", "O", "P", "Q", "R", "S", "T", "U", "V", "W", "X", "Y", "Z">>
LowerCase == <<"a", "b", "c", "d", "e", "f", "g", "h", "i", "j", "k", "l", "m",
               "n", "o", "p", "q", "r", "s", "t", "u", "v", "w", "x", "y", "z">>

LowerOf ==
    [c \in {UpperCase[i] : i \in 1..Len(UpperCase)} |->
        LowerCase[CHOOSE i \in 1..Len(UpperCase) : UpperCase[i] = c]]

ToLowerChar(c) == IF c \in DOMAIN LowerOf THEN LowerOf[c] ELSE c

\* String.prototype.toLowerCase
ToLowerCase(s) == [i \in 1..Len(s) |-> ToLowerChar(s[i])]

\* a match only of the whole string, as s === t would give
StringEquals(s, t) == s = t

\* String.prototype.includes: t occurs in s as a contiguous substring
Includes(s, t) ==
    \E i \in 0..(Len(s) - Len(t)) : SubSeq(s, i + 1, i + Len(t)) = t

IsWhitespace(c) == c \in {" ", "\t"}

\* s.trim() is the empty (falsy) string
TrimIsEmpty(s) == \A i \in 1..Len(s) : IsWhitespace(s[i])

\* s.split(/\s+/).filter(Boolean), scanning s from character i with the
\* piece being read in cur and the finished pieces in acc
RECURSIVE SplitFrom(_, _, _, _)
SplitFrom(s, i, cur, acc) ==
    LET closed == IF cur = <<>> THEN acc ELSE Append(acc, cur) IN
    IF i > Len(s) THEN closed
    ELSE IF IsWhitespace(s[i]) THEN SplitFrom(s, i + 1, <<>>, closed)
    ELSE SplitFrom(s, i + 1, Append(cur, s[i]), acc)

SplitWhitespace(s) == SplitFrom(s, 1, <<>>, <<>>)

\* Set.prototype.add followed by Array.from: insertion order, no duplicates
SetAdd(seq, x) ==
    IF \E i \in 1..Len(seq) : seq[i] = x THEN seq ELSE Append(seq, x)

Range(seq) == {seq[i] : i \in 1..Len(seq)}

(***************************************************************************)
(* Dates.                                                                  *)
(***************************************************************************)
NaN == -1

\* new Date(timestamp): the time value of the instant the string denotes,
\* NaN when the record carries no (parseable) timestamp
NewDate(timestamp) == IF timestamp < 0 THEN NaN ELSE timestamp

\* a <= b, a < b and a > b on Dates: every comparison with NaN is false
DateLE(a, b) == a # NaN /\ b # NaN /\ a <= b
DateLT(a, b) == a # NaN /\ b # NaN /\ a < b
DateGT(a, b) == a # NaN /\ b # NaN /\ a > b

(***************************************************************************)
(* JSON values of a transcript line.                                       *)
(***************************************************************************)
\* a value of a tool's argument object
StrVal(s) == [kind |-> "string", str |-> s, obj |-> <<>>]
ObjVal(entries) == [kind |-> "object", str |-> <<>>, obj |-> entries]
ArrVal(items) == [kind |-> "array", str |-> <<>>, obj |-> items]
OtherVal == [kind |-> "other", str |-> <<>>, obj |-> <<>>]
NoVal == [kind |-> "none", str |-> <<>>, obj |-> <<>>]
Entry(k, v) == [key |-> k, val |-> v]

\* a content block of either dialect
NoBlock == [type |-> "", text |-> <<>>, name |-> <<>>,
            input |-> NoVal, arguments |-> NoVal]
TextBlock(t) == [NoBlock EXCEPT !.type = "text", !.text = t]
ToolUse(n, in) == [NoBlock EXCEPT !.type = "tool_use", !.name = n, !.input = in]
ToolCall(n, args) ==
    [NoBlock EXCEPT !.type = "toolCall", !.name = n, !.arguments = args]

NoContent == [kind |-> "none", text |-> <<>>, blocks |-> <<>>]
StrContent(t) == [NoContent EXCEPT !.kind = "string", !.text = t]
ArrContent(bs) == [NoContent EXCEPT !.kind = "array", !.blocks = bs]

\* a usage object; a counter the object does not carry reads as 0 (`|| 0`)
NoUsage == [present |-> FALSE,
            input_tokens |-> 0, output_tokens |-> 0,
            cache_creation_input_tokens |-> 0, cache_read_input_tokens |-> 0,
            input |-> 0, output |-> 0, cacheRead |-> 0, cacheWrite |-> 0]
ClaudeUsage(i, o, cc, cr) ==
    [NoUsage EXCEPT !.present = TRUE, !.input_tokens = i, !.output_tokens = o,
                    !.cache_creation_input_tokens = cc,
                    !.cache_read_input_tokens = cr]
PiUsage(i, o, cr, cw) ==
    [NoUsage EXCEPT !.present = TRUE, !.input = i, !.output = o,
                    !.cacheRead = cr, !.cacheWrite = cw]

NoMessage == [present |-> FALSE, role |-> "", content |-> NoContent,
              model |-> "", usage |-> NoUsage]
Message(r, c, m, u) ==
    [present |-> TRUE, role |-> r, content |-> c, model |-> m, usage |-> u]

\* a line that JSON.parse turns into an object; kind "malformed" is a line
\* on which JSON.parse throws
NoLine == [kind |-> "object", type |-> "", version |-> 0, timestamp |-> NaN,
           sessionId |-> <<>>, id |-> <<>>, gitBranch |-> "", cwd |-> "",
           message |-> NoMessage, model |-> "", usage |-> NoUsage,
           modelId |-> "", toolName |-> <<>>]
Malformed == [NoLine EXCEPT !.kind = "malformed"]

Parses(line) == line.kind = "object"

\* the line `null`: JSON.parse returns null, and reading a property of it
\* throws
NullLiteral == [NoLine EXCEPT !.kind = "null"]
JsonParses(line) == line.kind \in {"object", "null"}

(***************************************************************************)
(* shared/parser.ts                                                        *)
(***************************************************************************)
Null == [null |-> TRUE]
\* the outcome of a call that throws
Thrown == [threw |-> TRUE]

\* detectSessionFormat without the test of the version marker
detectSessionFormatAnyVersion(firstLine) ==
    IF ~Parses(firstLine) THEN "unknown"
    ELSE IF firstLine.type = "session" THEN "pi"
    ELSE IF firstLine.type \in {"user", "assistant"} THEN "claude"
    ELSE "unknown"

\* detectSessionFormat(firstLine)
detectSessionFormat(firstLine) ==
    IF ~Parses(firstLine) THEN "unknown"
    ELSE IF firstLine.type = "session" /\ firstLine.version = 3 THEN "pi"
    ELSE IF firstLine.type \in {"user", "assistant"} THEN "claude"
    ELSE "unknown"

PathKeys == {"file_path", "path", "file", "filename", "filePath"}

LooksLikePath(s) == Includes(s, <<"/">>) \/ Includes(s, <<"\\">>)

\* extractFilePaths without the recursion into nested objects
RECURSIVE extractFilePathsShallow(_, _, _)
extractFilePathsShallow(input, i, found) ==
    IF i > Len(input) THEN found
    ELSE extractFilePathsShallow(input, i + 1,
            IF input[i].key \in PathKeys /\ input[i].val.kind = "string"
               /\ LooksLikePath(input[i].val.str)
            THEN SetAdd(found, input[i].val.str)
            ELSE found)

\* extractFilePaths(input, files), from entry i of Object.entries(input) on
RECURSIVE extractFilePathsFrom(_, _, _)
extractFilePathsFrom(input, i, found) ==
    IF i > Len(input) THEN found
    ELSE
        LET key == input[i].key
            value == input[i].val
            f1 == IF key \in PathKeys /\ value.kind = "string"
                     /\ LooksLikePath(value.str)
                  THEN SetAdd(found, value.str)
                  ELSE found
            f2 == IF value.kind = "object"
                  THEN extractFilePathsFrom(value.obj, 1, f1)
                  ELSE f1
        IN extractFilePathsFrom(input, i + 1, f2)

extractFilePaths(input, found) == extractFilePathsFrom(input, 1, found)

\* extractFilePaths(input, files) when input is an array: Object.entries
\* pairs each item with its index, never a path key, and an item that is a
\* plain object is recursed into
RECURSIVE extractFilePathsOfItems(_, _, _)
extractFilePathsOfItems(items, i, found) ==
    IF i > Len(items) THEN found
    ELSE extractFilePathsOfItems(items, i + 1,
            IF items[i].kind = "object"
            THEN extractFilePathsFrom(items[i].obj, 1, found)
            ELSE found)

\* if (input) extractFilePaths(input, files): a string or a number has no
\* entry that is a path key or an object
extractFilePathsOfValue(input, found) ==
    IF input.kind = "object" THEN extractFilePaths(input.obj, found)
    ELSE IF input.kind = "array"
    THEN extractFilePathsOfItems(input.obj, 1, found)
    ELSE found

ZeroTokens == [input |-> 0, output |-> 0, cacheCreation |-> 0, cacheRead |-> 0]

\* the accumulators both normalisers initialise
InitAcc == [userMessages |-> <<>>, toolsUsed |-> <<>>,
            filesFromToolCalls |-> <<>>, modelsUsed |-> <<>>,
            inputTokens |-> 0, outputTokens |-> 0,
            cacheCreationTokens |-> 0, cacheReadTokens |-> 0,
            modelTokens |-> [m \in {} |-> ZeroTokens]]

\* extractFromContentBlock(block, toolsUsed, filesFromToolCalls)
extractFromContentBlock(block, acc) ==
    IF block.type = "tool_use" /\ block.name # <<>>
    THEN [acc EXCEPT
            !.toolsUsed = SetAdd(@, block.name),
            !.filesFromToolCalls =
                extractFilePathsOfValue(block.input, @)]
    ELSE acc

\* extractFromPiContentBlock(block, toolsUsed, filesFromToolCalls)
extractFromPiContentBlock(block, acc) ==
    IF block.type = "toolCall" /\ block.name # <<>>
    THEN [acc EXCEPT
            !.toolsUsed = SetAdd(@, block.name),
            !.filesFromToolCalls =
                extractFilePathsOfValue(block.arguments, @)]
    ELSE acc

RECURSIVE ClaudeBlocks(_, _, _)
ClaudeBlocks(blocks, i, acc) ==
    IF i > Len(blocks) THEN acc
    ELSE ClaudeBlocks(blocks, i + 1, extractFromContentBlock(blocks[i], acc))

RECURSIVE PiBlocks(_, _, _)
PiBlocks(blocks, i, acc) ==
    IF i > Len(blocks) THEN acc
    ELSE PiBlocks(blocks, i + 1, extractFromPiContentBlock(blocks[i], acc))

\* modelsUsed.add(model) without the initialisation of modelTokens[model]
TrackModelUnbucketed(acc, model) ==
    IF model # "" THEN [acc EXCEPT !.modelsUsed = SetAdd(@, model)] ELSE acc

\* modelsUsed.add(model) and the initialisation of modelTokens[model]
TrackModel(acc, model) ==
    IF model # ""
    THEN [acc EXCEPT
            !.modelsUsed = SetAdd(@, model),
            !.modelTokens = IF model \in DOMAIN @ THEN @
                            ELSE (model :> ZeroTokens) @@ @]
    ELSE acc

\* the session totals and the per-model bucket take the four counters
AddUsage(acc, model, in, out, cacheCreation, cacheRead) ==
    LET totals == [acc EXCEPT !.inputTokens = @ + in,
                              !.outputTokens = @ + out,
                              !.cacheCreationTokens = @ + cacheCreation,
                              !.cacheReadTokens = @ + cacheRead]
    IN IF model # "" /\ model \in DOMAIN acc.modelTokens
       THEN [totals EXCEPT
               !.modelTokens[model] =
                   [input |-> @.input + in,
                    output |-> @.output + out,
                    cacheCreation |-> @.cacheCreation + cacheCreation,
                    cacheRead |-> @.cacheRead + cacheRead]]
       ELSE totals

\* one turn of the loop over messages in parseClaudeSessionContent; every
\* user and assistant record of LinePool carries a message object
ClaudeTurn(acc, msg) ==
    IF msg.type = "user"
    THEN IF msg.message.content.kind = "string"
            /\ ~TrimIsEmpty(msg.message.content.text)
         THEN [acc EXCEPT !.userMessages = Append(@, msg.message.content.text)]
         ELSE acc
    ELSE IF msg.type # "assistant" THEN acc
    ELSE
        LET assistantMsg == msg.message
            a1 == TrackModel(acc, assistantMsg.model)
            a2 == IF assistantMsg.usage.present
                  THEN AddUsage(a1, assistantMsg.model,
                                assistantMsg.usage.input_tokens,
                                assistantMsg.usage.output_tokens,
                                assistantMsg.usage.cache_creation_input_tokens,
                                assistantMsg.usage.cache_read_input_tokens)
                  ELSE a1
        IN IF assistantMsg.content.kind = "array"
           THEN ClaudeBlocks(assistantMsg.content.blocks, 1, a2)
           ELSE a2

RECURSIVE ClaudeTurns(_, _, _)
ClaudeTurns(messages, i, acc) ==
    IF i > Len(messages) THEN acc
    ELSE ClaudeTurns(messages, i + 1, ClaudeTurn(acc, messages[i]))

HexChars == {"a", "b", "c", "d", "e", "f", "-",
             "0", "1", "2", "3", "4", "5", "6", "7", "8", "9"}
IdLen == 36
sJsonl == <<".", "j", "s", "o", "n", "l">>
sUnknown == <<"u", "n", "k", "n", "o", "w", "n">>

\* path?.match(/([a-f0-9-]{36})\.jsonl$/)?.[1], <<>> when there is no match
MatchSessionId(path) ==
    LET n == Len(path) IN
    IF n >= IdLen + Len(sJsonl)
       /\ SubSeq(path, n - Len(sJsonl) + 1, n) = sJsonl
       /\ \A i \in (n - Len(sJsonl) - IdLen + 1)..(n - Len(sJsonl)) :
              path[i] \in HexChars
    THEN SubSeq(path, n - Len(sJsonl) - IdLen + 1, n - Len(sJsonl))
    ELSE <<>>

\* the embedded identifier taken before the name in the path
FirstTruthyEmbedded(a, b) ==
    IF b # <<>> THEN b ELSE IF a # <<>> THEN a ELSE sUnknown

\* a || b || 'unknown' on strings
FirstTruthy(a, b) == IF a # <<>> THEN a ELSE IF b # <<>> THEN b ELSE sUnknown

Record(id, first, last, branch, cwd, count, acc) ==
    [id |-> id,
     startedAt |-> NewDate(first.timestamp),
     endedAt |-> NewDate(last.timestamp),
     gitBranch |-> branch,
     cwd |-> cwd,
     messageCount |-> count,
     inputTokens |-> acc.inputTokens,
     outputTokens |-> acc.outputTokens,
     cacheCreationTokens |-> acc.cacheCreationTokens,
     cacheReadTokens |-> acc.cacheReadTokens,
     userMessages |-> acc.userMessages,
     toolsUsed |-> acc.toolsUsed,
     filesFromToolCalls |-> acc.filesFromToolCalls,
     modelsUsed |-> acc.modelsUsed,
     modelTokens |-> acc.modelTokens]

IsClaudeTurn(line) == Parses(line) /\ line.type \in {"user", "assistant"}

\* parseClaudeSessionContent(lines, sessionId)
parseClaudeSessionContent(lines, path) ==
    LET messages == SelectSeq(lines, IsClaudeTurn) IN
    IF Len(messages) = 0 THEN Null
    ELSE IF \E i \in 1..Len(messages) : ~messages[i].message.present
    THEN Thrown   \* msg.message is undefined: reading .content or .model
    ELSE
        LET firstMessage == messages[1]
            lastMessage == messages[Len(messages)]
            acc == ClaudeTurns(messages, 1, InitAcc)
        IN Record(FirstTruthy(MatchSessionId(path), firstMessage.sessionId),
                  firstMessage, lastMessage,
                  IF firstMessage.gitBranch # "" THEN firstMessage.gitBranch
                  ELSE "unknown",
                  firstMessage.cwd, Len(messages), acc)

IsPiSession(line) == Parses(line) /\ line.type = "session"

\* the conversational filter without the test of the role
IsPiTurnAnyRole(line) ==
    /\ Parses(line)
    /\ line.type = "message"
    /\ line.message.present

IsPiTurn(line) ==
    /\ Parses(line)
    /\ line.type = "message"
    /\ line.message.present
    /\ line.message.role \in {"user", "assistant"}

IsPiModelChange(line) == Parses(line) /\ line.type = "model_change"

IsPiToolResult(line) ==
    /\ Parses(line)
    /\ line.type = "message"
    /\ line.message.present
    /\ line.message.role = "toolResult"

\* the loop over modelChanges in parsePiSessionContent
RECURSIVE PiModelChanges(_, _, _)
PiModelChanges(changes, i, acc) ==
    IF i > Len(changes) THEN acc
    ELSE PiModelChanges(changes, i + 1,
            IF changes[i].modelId # ""
            THEN [acc EXCEPT !.modelsUsed = SetAdd(@, changes[i].modelId)]
            ELSE acc)

\* the text blocks of a Pi user turn pushed onto userMessages
RECURSIVE PiUserBlocks(_, _, _)
PiUserBlocks(blocks, i, acc) ==
    IF i > Len(blocks) THEN acc
    ELSE PiUserBlocks(blocks, i + 1,
            IF blocks[i].type = "text" /\ blocks[i].text # <<>>
            THEN [acc EXCEPT !.userMessages = Append(@, blocks[i].text)]
            ELSE acc)

\* one turn of the loop over conversationMessages in parsePiSessionContent
PiTurn(acc, msg) ==
    IF msg.message.role = "user"
    THEN IF msg.message.content.kind = "array"
         THEN PiUserBlocks(msg.message.content.blocks, 1, acc)
         ELSE acc
    ELSE IF msg.message.role # "assistant" THEN acc
    ELSE
        LET model == IF msg.model # "" THEN msg.model ELSE msg.message.model
            usage == IF msg.usage.present THEN msg.usage ELSE msg.message.usage
            a1 == TrackModel(acc, model)
            a2 == IF usage.present
                  THEN AddUsage(a1, model, usage.input, usage.output,
                                usage.cacheWrite, usage.cacheRead)
                  ELSE a1
        IN IF msg.message.content.kind = "array"
           THEN PiBlocks(msg.message.content.blocks, 1, a2)
           ELSE a2

RECURSIVE PiTurns(_, _, _)
PiTurns(messages, i, acc) ==
    IF i > Len(messages) THEN acc
    ELSE PiTurns(messages, i + 1, PiTurn(acc, messages[i]))

\* parsePiSessionContent without the loop over toolResults
PiToolResultsSkipped(toolResults, i, acc) == acc

\* the loop over toolResults in parsePiSessionContent
RECURSIVE PiToolResults(_, _, _)
PiToolResults(toolResults, i, acc) ==
    IF i > Len(toolResults) THEN acc
    ELSE PiToolResults(toolResults, i + 1,
            IF toolResults[i].toolName # <<>>
            THEN [acc EXCEPT !.toolsUsed = SetAdd(@, toolResults[i].toolName)]
            ELSE acc)

\* parsePiSessionContent(lines, sessionId)
parsePiSessionContent(lines, path) ==
    LET allMessages == SelectSeq(lines, JsonParses)
        sessions == SelectSeq(allMessages, IsPiSession)
        conversationMessages == SelectSeq(allMessages, IsPiTurn)
    IN
    IF Len(allMessages) = 0 THEN Null
    ELSE IF \E i \in 1..Len(allMessages) : allMessages[i].kind = "null"
    THEN Thrown   \* the filter callback reads m.type of null
    ELSE IF Len(sessions) = 0 \/ Len(conversationMessages) = 0 THEN Null
    ELSE
        LET sessionMessage == sessions[1]
            a1 == PiModelChanges(SelectSeq(allMessages, IsPiModelChange), 1,
                                 InitAcc)
            a2 == PiTurns(conversationMessages, 1, a1)
            a3 == PiToolResults(SelectSeq(allMessages, IsPiToolResult), 1, a2)
            firstMsg == conversationMessages[1]
            lastMsg == conversationMessages[Len(conversationMessages)]
        IN Record(FirstTruthy(MatchSessionId(path), sessionMessage.id),
                  firstMsg, lastMsg, "unknown", sessionMessage.cwd,
                  Len(conversationMessages), a3)

\* parseSessionContent giving up on the first line JSON.parse rejects
parseSessionContentStrict(lines, path) ==
    IF Len(lines) = 0 \/ \E i \in 1..Len(lines) : ~Parses(lines[i]) THEN Null
    ELSE
        LET format == detectSessionFormat(lines[1]) IN
        IF format = "pi" THEN parsePiSessionContent(lines, path)
        ELSE IF format = "claude" THEN parseClaudeSessionContent(lines, path)
        ELSE Null

\* parseSessionContent(content, sessionId); content.trim().split('\n')
\* .filter(Boolean) leaves the non-empty lines, which is what `lines` holds
parseSessionContent(lines, path) ==
    IF Len(lines) = 0 THEN Null
    ELSE
        LET format == detectSessionFormat(lines[1]) IN
        IF format = "pi" THEN parsePiSessionContent(lines, path)
        ELSE IF format = "claude" THEN parseClaudeSessionContent(lines, path)
        ELSE Null

(***************************************************************************)
(* Transcript lines the runs are built from.                               *)
(***************************************************************************)
MsPerDay == 24 * 60 * 60 * 1000
Day(d) == d * MsPerDay

sEmailMsg == <<"L", "e", "t", "'", "s", " ", "b", "u", "i", "l", "d", " ", "a", "n", " ", "e", "m", "a", "i", "l", " ", "f", "i", "l", "t", "e", "r", "i", "n", "g", " ", "s", "y", "s", "t", "e", "m">>
sBlank == <<" ", " ">>
sOverseer == <<"o", "v", "e", "r", "s", "e", "e", "r">>
sEdit == <<"E", "d", "i", "t">>
sBash == <<"b", "a", "s", "h">>
sRead == <<"r", "e", "a", "d">>
sEmailPath == <<"s", "r", "c", "/", "a", "p", "i", "/", "e", "m", "a", "i", "l", ".", "t", "s">>
sOverseerPath == <<"s", "r", "c", "/", "o", "v", "e", "r", "s", "e", "e", "r", ".", "t", "s">>
sReadme == <<"R", "E", "A", "D", "M", "E", ".", "m", "d">>
sClaudeSid == <<"c", "l", "a", "u", "d", "e", "-", "s", "i", "d">>
sPiSid == <<"p", "i", "-", "s", "i", "d">>
sUuid == <<"1", "2", "3", "e", "4", "5", "6", "7", "-", "e", "8", "9", "b", "-", "1", "2", "d", "3", "-", "a", "4", "5", "6", "-", "4", "2", "6", "6", "1", "4", "1", "7", "4", "0", "0", "0">>
sUuidPath == <<"/", "s", "/">> \o sUuid \o sJsonl
sPlainPath == <<"t", "e", "s", "t", ".", "j", "s", "o", "n", "l">>

ClaudeUser ==
    [NoLine EXCEPT !.type = "user", !.timestamp = Day(2),
        !.sessionId = sClaudeSid, !.gitBranch = "main", !.cwd = "/p",
        !.message = Message("user", StrContent(sEmailMsg), "", NoUsage)]
ClaudeUserBlank ==
    [NoLine EXCEPT !.type = "user", !.timestamp = Day(1),
        !.message = Message("user", StrContent(sBlank), "", NoUsage)]
ClaudeAssistantEdit ==
    [NoLine EXCEPT !.type = "assistant", !.timestamp = Day(3),
        !.sessionId = sClaudeSid,
        !.message = Message("assistant",
            ArrContent(<<TextBlock(sOverseer),
                         ToolUse(sEdit, ObjVal(<<Entry("file_path",
                                                      StrVal(sEmailPath)),
                                                 Entry("old_string",
                                                      StrVal(sOverseerPath))>>))>>),
            "m1", ClaudeUsage(1, 2, 3, 4))]
ClaudeAssistantNoModel ==
    [NoLine EXCEPT !.type = "assistant", !.timestamp = Day(3),
        !.message = Message("assistant", NoContent, "", ClaudeUsage(5, 1, 0, 2))]
ClaudeAssistantOther ==
    [NoLine EXCEPT !.type = "assistant", !.timestamp = Day(4),
        !.message = Message("assistant",
            ArrContent(<<ToolUse(sBash, ObjVal(<<Entry("command",
                                                      StrVal(sReadme))>>))>>),
            "m2", ClaudeUsage(2, 0, 1, 0))]
ClaudeSummary == [NoLine EXCEPT !.type = "summary"]

PiSession ==
    [NoLine EXCEPT !.type = "session", !.version = 3, !.id = sPiSid,
        !.timestamp = Day(1), !.cwd = "/q"]
PiSessionOld ==
    [NoLine EXCEPT !.type = "session", !.version = 2, !.id = sPiSid]
PiUser ==
    [NoLine EXCEPT !.type = "message", !.timestamp = Day(3),
        !.message = Message("user", ArrContent(<<TextBlock(sOverseer)>>),
                            "", NoUsage)]
PiAssistantWrite ==
    [NoLine EXCEPT !.type = "message", !.timestamp = Day(2),
        !.message = Message("assistant",
            ArrContent(<<ToolCall(sBash, ObjVal(<<Entry("options",
                ObjVal(<<Entry("path", StrVal(sOverseerPath)),
                         Entry("file", StrVal(sReadme))>>))>>))>>),
            "m3", PiUsage(3, 1, 2, 1))]
PiAssistantNoModel ==
    [NoLine EXCEPT !.type = "message", !.timestamp = Day(4),
        !.usage = PiUsage(1, 1, 0, 0),
        !.message = Message("assistant", NoContent, "", NoUsage)]
PiToolResult ==
    [NoLine EXCEPT !.type = "message", !.timestamp = Day(5),
        !.toolName = sRead,
        !.message = Message("toolResult", NoContent, "", NoUsage)]
PiModelChange ==
    [NoLine EXCEPT !.type = "model_change", !.modelId = "m4"]

LinePool ==
    <<ClaudeUser, ClaudeUserBlank, ClaudeAssistantEdit, ClaudeAssistantNoModel,
      ClaudeAssistantOther, ClaudeSummary, PiSession, PiSessionOld, PiUser,
      PiAssistantWrite, PiAssistantNoModel, PiToolResult, PiModelChange,
      Malformed>>

PathPool == <<sPlainPath, sUuidPath>>

\* the sequences of at most n positions of a pool of m elements
IndexSeqs(m, n) == UNION {[1..k -> 1..m] : k \in 0..n}
\* the elements of the pool at the positions ix, in that order
Pick(pool, ix) == [i \in 1..Len(ix) |-> pool[ix[i]]]
\* the sequences of at most n elements of the sequence pool
SeqsUpTo(pool, n) == {Pick(pool, ix) : ix \in IndexSeqs(Len(pool), n)}

(***************************************************************************)
(* Specification SpecParse: parseSessionContent applied to a transcript.   *)
(***************************************************************************)
NoString == [given |-> FALSE, text |-> <<>>]
NoDate == [given |-> FALSE, time |-> NaN]
\* an optional number: absent, or given with its value
NoNumber == [given |-> FALSE, value |-> 0]
Num(n) == [given |-> TRUE, value |-> n]
\* the truthiness of an optional number: undefined and 0 are falsy
Truthy(n) == n.given /\ n.value # 0
\* SearchOptions with every option absent; tools <<>> and filePattern <<>>
\* are the falsy values the code treats as absent
NoOptions == [query |-> NoString, days |-> NoNumber, since |-> NoDate,
              until |-> NoDate, tools |-> <<>>, filePattern |-> <<>>,
              limit |-> NoNumber]
NoEdit == [msg |-> 0, at |-> 0, term |-> <<>>]

ParseIdle ==
    /\ content = <<>> /\ sessionId = <<>> /\ parsed = Null
ScoreIdle ==
    /\ session = Null /\ query = <<>> /\ score = 0
    /\ edit = NoEdit /\ prevScore = 0
SearchIdle ==
    /\ files = <<>> /\ options = NoOptions /\ now = 0 /\ results = <<>>
FilterIdle == verdict = FALSE
DirsIdle == directories = <<>> /\ hits = <<>>

InitParse ==
    /\ pc = "parse"
    /\ \E ix \in IndexSeqs(Len(LinePool), MaxLines) : content = Pick(LinePool, ix)
    /\ sessionId \in Range(PathPool)
    /\ parsed = Null
    /\ ScoreIdle
    /\ SearchIdle
    /\ FilterIdle
    /\ DirsIdle

\* a caller hands the transcript to parseSessionContent
ParseSessionContent ==
    /\ pc = "parse"
    /\ parsed' = parseSessionContent(content, sessionId)
    /\ pc' = "parsed"
    /\ UNCHANGED <<content, sessionId, session, query, score, edit, prevScore,
                   files, options, now, results,
                   verdict, directories, hits>>

NextParse == ParseSessionContent

SpecParse == InitParse /\ [][NextParse]_vars

(***************************************************************************)
(* Claims about the parser.                                                *)
(***************************************************************************)
RECURSIVE SumOverModels(_, _, _)
SumOverModels(modelTokens, models, counter) ==
    IF models = {} THEN 0
    ELSE LET m == CHOOSE x \in models : TRUE
         IN modelTokens[m][counter]
            + SumOverModels(modelTokens, models \ {m}, counter)

PerModelSum(s, counter) ==
    SumOverModels(s.modelTokens, DOMAIN s.modelTokens, counter)

Returned == pc = "parsed" /\ parsed # Null /\ parsed # Thrown

\* C1: in every record parseSessionContent returns, each session-level
\* counter equals the sum of that counter over the entries of modelTokens,
\* also when an assistant turn carries usage and no model.
C1_CountersEqualPerModelSums ==
    Returned =>
        /\ parsed.inputTokens = PerModelSum(parsed, "input")
        /\ parsed.outputTokens = PerModelSum(parsed, "output")
        /\ parsed.cacheCreationTokens = PerModelSum(parsed, "cacheCreation")
        /\ parsed.cacheReadTokens = PerModelSum(parsed, "cacheRead")

ValidLines(lines) == SelectSeq(lines, Parses)

\* C2 as claimed: lines that are not parseable JSON may be inserted at any
\* offset, the first included, and the result is that of the valid lines
\* alone.
C2_MalformedAnywhere ==
    pc = "parsed" => parsed = parseSessionContent(ValidLines(content), sessionId)

\* C2 as amended: lines that are not parseable JSON inserted anywhere after
\* the first line leave the result that of the valid lines alone.
C2_MalformedAfterFirstLine ==
    (pc = "parsed" /\ Len(content) > 0 /\ Parses(content[1])) =>
        parsed = parseSessionContent(ValidLines(content), sessionId)

C2_Witness ==
    /\ Returned
    /\ Parses(content[1])
    /\ \E i \in 2..Len(content) : ~Parses(content[i])
    /\ \E i \in 2..Len(content) : i > 2 /\ Parses(content[i])

\* a user or assistant turn of either dialect
IsTurn(line) ==
    /\ Parses(line)
    /\ \/ line.type \in {"user", "assistant"}
       \/ /\ line.type = "message"
          /\ line.message.present
          /\ line.message.role \in {"user", "assistant"}

\* C3: a transcript with no user or assistant turn parses to null, and a
\* returned record counts at least one conversational turn.
C3_EmptySessionIsNull ==
    pc = "parsed" =>
        /\ (\A i \in 1..Len(content) : ~IsTurn(content[i])) => parsed = Null
        /\ parsed # Null => parsed.messageCount >= 1

C3_Witness ==
    /\ pc = "parsed"
    /\ parsed = Null
    /\ Len(content) = MaxLines
    /\ detectSessionFormat(content[1]) = "pi"
    /\ \A i \in 1..Len(content) : Parses(content[i]) /\ ~IsTurn(content[i])

\* C4: every returned record has startedAt <= endedAt, whatever the order of
\* the timestamps of the conversational records.
C4_StartNotAfterEnd ==
    Returned => DateLE(parsed.startedAt, parsed.endedAt)

FirstIsPi ==
    /\ Parses(content[1])
    /\ content[1].type = "session"
    /\ content[1].version = 3
FirstIsClaude ==
    /\ Parses(content[1])
    /\ content[1].type \in {"user", "assistant"}

\* C5: the first line alone selects the normaliser: a session record with
\* version 3 the Pi one, a user or assistant record the Claude one, and
\* anything else makes parseSessionContent return null whatever follows.
C5_FirstLineDecides ==
    (pc = "parsed" /\ Len(content) > 0) =>
        /\ FirstIsPi => parsed = parsePiSessionContent(content, sessionId)
        /\ FirstIsClaude =>
               parsed = parseClaudeSessionContent(content, sessionId)
        /\ (~FirstIsPi /\ ~FirstIsClaude) => parsed = Null

C5_Witness ==
    /\ pc = "parsed"
    /\ parsed = Null
    /\ Len(content) > 0
    /\ Parses(content[1]) /\ content[1].type = "session"
    /\ ~FirstIsPi
    /\ \E i \in 2..Len(content) : IsTurn(content[i])

(***************************************************************************)
(* file-based/search-lib.ts: scoreRelevance                                *)
(***************************************************************************)
MessageWeight == 10
ToolWeight == 3
FileWeight == 3

\* the inner loop over queryTerms for one lower-cased item, from term j on:
\* the number of terms the item includes
RECURSIVE TermHits(_, _, _)
TermHits(itemLower, queryTerms, j) ==
    IF j > Len(queryTerms) THEN 0
    ELSE (IF Includes(itemLower, queryTerms[j]) THEN 1 ELSE 0)
         + TermHits(itemLower, queryTerms, j + 1)

\* one of the three passes of scoreRelevance over a field, from item i on
RECURSIVE ScorePass(_, _, _, _)
ScorePass(items, queryTerms, weight, i) ==
    IF i > Len(items) THEN 0
    ELSE weight * TermHits(ToLowerCase(items[i]), queryTerms, 1)
         + ScorePass(items, queryTerms, weight, i + 1)

QueryTerms(q) == SplitWhitespace(ToLowerCase(q))

\* the local matchedOn of scoreRelevance when it returns
MatchedOn(s, q) ==
    LET queryTerms == QueryTerms(q) IN
    (IF ScorePass(s.userMessages, queryTerms, 1, 1) > 0
     THEN <<"userMessages">> ELSE <<>>)
    \o (IF ScorePass(s.toolsUsed, queryTerms, 1, 1) > 0
        THEN <<"toolsUsed">> ELSE <<>>)
    \o (IF ScorePass(s.filesFromToolCalls, queryTerms, 1, 1) > 0
        THEN <<"filesFromToolCalls">> ELSE <<>>)

\* scoreRelevance leaving the loop over terms at the first term that matches
RECURSIVE ScorePassFirstHit(_, _, _, _)
ScorePassFirstHit(items, queryTerms, weight, i) ==
    IF i > Len(items) THEN 0
    ELSE (IF TermHits(ToLowerCase(items[i]), queryTerms, 1) > 0
          THEN weight ELSE 0)
         + ScorePassFirstHit(items, queryTerms, weight, i + 1)

scoreRelevanceFirstHit(s, q) ==
    IF q = <<>> THEN 1
    ELSE
        LET queryTerms == QueryTerms(q) IN
        ScorePassFirstHit(s.userMessages, queryTerms, MessageWeight, 1)
        + ScorePassFirstHit(s.toolsUsed, queryTerms, ToolWeight, 1)
        + ScorePassFirstHit(s.filesFromToolCalls, queryTerms, FileWeight, 1)

\* scoreRelevance(session, query)
scoreRelevance(s, q) ==
    IF q = <<>> THEN 1
    ELSE
        LET queryTerms == QueryTerms(q) IN
        ScorePass(s.userMessages, queryTerms, MessageWeight, 1)
        + ScorePass(s.toolsUsed, queryTerms, ToolWeight, 1)
        + ScorePass(s.filesFromToolCalls, queryTerms, FileWeight, 1)

(***************************************************************************)
(* Specification SpecScore: scoreRelevance applied to a session and a      *)
(* query, and applied again after a user message gained an occurrence of   *)
(* a query term.                                                           *)
(***************************************************************************)
sEmail == <<"e", "m", "a", "i", "l">>

\* the session of the transcript with one user message, the tool Edit and
\* the path src/api/email.ts
ExampleSession ==
    parseSessionContent(<<ClaudeUser, ClaudeAssistantEdit>>, sPlainPath)

MsgPool == << <<"a", "a", "B">>, <<"b", "A">> >>
ToolPool == << <<"a", "B">> >>
FilePool == << <<"a", "/", "b">> >>
QueryAlphabet == <<"a", "B", " ">>

Sessions ==
    {ExampleSession}
    \cup {[ExampleSession EXCEPT !.userMessages = um, !.toolsUsed = tu,
                                 !.filesFromToolCalls = fp] :
            um \in SeqsUpTo(MsgPool, MaxMsgs),
            tu \in SeqsUpTo(ToolPool, 1),
            fp \in SeqsUpTo(FilePool, 1)}

Queries == {sEmail} \cup SeqsUpTo(QueryAlphabet, MaxQueryLen)

InitScore ==
    /\ pc = "score"
    /\ session \in Sessions
    /\ query \in Queries
    /\ score = 0
    /\ edit = NoEdit
    /\ prevScore = 0
    /\ ParseIdle
    /\ SearchIdle
    /\ FilterIdle
    /\ DirsIdle

\* a caller scores the session against the query
ScoreRelevance ==
    /\ pc = "score"
    /\ score' = scoreRelevance(session, query)
    /\ pc' = "scored"
    /\ UNCHANGED <<content, sessionId, parsed, session, query, edit, prevScore,
                   files, options, now, results,
                   verdict, directories, hits>>

\* s with t inserted after its first `at` characters
InsertAt(s, at, t) == SubSeq(s, 1, at) \o t \o SubSeq(s, at + 1, Len(s))

\* user message i gains an occurrence of a query term after its first `at`
\* characters, and the caller scores the session again
InsertTermAndRescore ==
    /\ pc = "scored"
    /\ \E i \in 1..Len(session.userMessages) :
       \E j \in 1..Len(QueryTerms(query)) :
       \E at \in 0..Len(session.userMessages[i]) :
          LET term == QueryTerms(query)[j] IN
          /\ session' = [session EXCEPT
                            !.userMessages[i] = InsertAt(@, at, term)]
          /\ edit' = [msg |-> i, at |-> at, term |-> term]
    /\ prevScore' = score
    /\ score' = scoreRelevance(session', query)
    /\ pc' = "rescored"
    /\ UNCHANGED <<content, sessionId, parsed, query, files, options, now,
                   results,
                   verdict, directories, hits>>

NextScore == ScoreRelevance \/ InsertTermAndRescore

SpecScore == InitScore /\ [][NextScore]_vars

(***************************************************************************)
(* Claims about scoreRelevance.                                            *)
(***************************************************************************)
\* the non-empty whitespace-separated pieces of q, each as the pair of its
\* first and last position
Pieces(q) ==
    {p \in (1..Len(q)) \X (1..Len(q)) :
        /\ p[1] <= p[2]
        /\ \A k \in p[1]..p[2] : ~IsWhitespace(q[k])
        /\ (p[1] = 1 \/ IsWhitespace(q[p[1] - 1]))
        /\ (p[2] = Len(q) \/ IsWhitespace(q[p[2] + 1]))}

\* the (item, piece) pairs where the lower-cased item contains the
\* lower-cased piece
MatchingPairs(items, q) ==
    {ip \in (1..Len(items)) \X Pieces(q) :
        \E k \in 0..Len(items[ip[1]]) :
            /\ k + (ip[2][2] - ip[2][1]) < Len(items[ip[1]])
            /\ \A d \in 0..(ip[2][2] - ip[2][1]) :
                   ToLowerChar(items[ip[1]][k + 1 + d])
                       = ToLowerChar(q[ip[2][1] + d])}

Scored == pc \in {"scored", "rescored"}

\* C6: for a non-empty query the score is 10 per (user message, term) pair
\* plus 3 per (tool name, term) pair plus 3 per (file path, term) pair where
\* the lower-cased field contains the lower-cased term; the session with one
\* message containing 'email', tool 'Edit' and path 'src/api/email.ts' scores
\* 13 against 'email'.
C6_ScoreIsWeightedPairCount ==
    (Scored /\ query # <<>>) =>
        /\ score = 10 * Cardinality(MatchingPairs(session.userMessages, query))
                   + 3 * Cardinality(MatchingPairs(session.toolsUsed, query))
                   + 3 * Cardinality(MatchingPairs(session.filesFromToolCalls,
                                                   query))
        /\ (session = ExampleSession /\ query = sEmail) => score = 13

C6_Witness ==
    /\ pc = "scored"
    /\ session = ExampleSession
    /\ query = sEmail
    /\ score = 13

\* C10 as claimed: inserting an occurrence of a query term anywhere into a
\* user message never decreases the score.
C10_InsertNeverDecreases ==
    pc = "rescored" => score >= prevScore

AtEitherEnd ==
    \/ edit.at = 0
    \/ edit.at + Len(edit.term) = Len(session.userMessages[edit.msg])

\* C10 as amended: adding an occurrence of a query term at the start or at
\* the end of a user message never decreases the score.
C10_AppendNeverDecreases ==
    (pc = "rescored" /\ AtEitherEnd) => score >= prevScore

C10_Witness ==
    /\ pc = "rescored"
    /\ AtEitherEnd
    /\ edit.at > 0
    /\ Len(QueryTerms(query)) > 1
    /\ score > prevScore

(***************************************************************************)
(* file-based/search-lib.ts: matchesFilters and processSessionFiles        *)
(***************************************************************************)
\* parseSessionFile without its try/catch; readFileSync throws on a file
\* that cannot be read
parseSessionFileUncaught(file) ==
    IF ~file.readable THEN Thrown
    ELSE parseSessionContent(file.lines, file.path)

\* parseSessionFile(filePath): null when readFileSync or parseSessionContent
\* throws
parseSessionFile(file) ==
    IF ~file.readable THEN Null
    ELSE LET outcome == parseSessionContent(file.lines, file.path) IN
         IF outcome = Thrown THEN Null ELSE outcome

\* the tool filter with `every` in place of the outer `some`
matchesToolsEvery(s, opts) ==
    \A i \in 1..Len(opts.tools) : \E j \in 1..Len(s.toolsUsed) :
        Includes(ToLowerCase(s.toolsUsed[j]), ToLowerCase(opts.tools[i]))

\* options.tools.some(tool => session.toolsUsed.some(t =>
\*     t.toLowerCase().includes(tool.toLowerCase())))
matchesTools(s, opts) ==
    \E i \in 1..Len(opts.tools) : \E j \in 1..Len(s.toolsUsed) :
        Includes(ToLowerCase(s.toolsUsed[j]), ToLowerCase(opts.tools[i]))

\* the file-pattern filter without the two toLowerCase() calls
matchesFilePatternCaseSensitive(s, opts) ==
    \E j \in 1..Len(s.filesFromToolCalls) :
        Includes(s.filesFromToolCalls[j], opts.filePattern)

\* session.filesFromToolCalls.some(f => f.toLowerCase().includes(pattern))
matchesFilePattern(s, opts) ==
    \E j \in 1..Len(s.filesFromToolCalls) :
        Includes(ToLowerCase(s.filesFromToolCalls[j]),
                 ToLowerCase(opts.filePattern))

\* matchesFilters(session, options), the clock reading `clock`
matchesFilters(s, opts, clock) ==
    LET since == IF opts.since.given THEN opts.since
                 ELSE IF Truthy(opts.days)
                      THEN [given |-> TRUE,
                            time |-> clock - opts.days.value * MsPerDay]
                      ELSE NoDate
    IN
    /\ ~(since.given /\ DateLT(s.endedAt, since.time))
    /\ ~(opts.until.given /\ DateGT(s.endedAt, opts.until.time))
    /\ Len(opts.tools) > 0 => matchesTools(s, opts)
    /\ opts.filePattern # <<>> => matchesFilePattern(s, opts)

\* options.query is truthy: given and not the empty string
QueryGiven(opts) == opts.query.given /\ opts.query.text # <<>>

\* the relevance of an unscored session taken to be 0
RelevanceDefaultZero(s, opts) ==
    IF QueryGiven(opts) THEN scoreRelevance(s, opts.query.text) ELSE 0

\* options.query ? scoreRelevance(session, options.query) : 1
Relevance(s, opts) ==
    IF QueryGiven(opts) THEN scoreRelevance(s, opts.query.text) ELSE 1

\* no candidate is skipped on its relevance
KeepsAll(opts, relevance) == TRUE

\* the negation of `options.query && relevance === 0`
Keeps(opts, relevance) == ~(QueryGiven(opts) /\ relevance = 0)

\* { ...session, relevance, transcriptPath: filePath }
SearchResult(s, relevance, path) ==
    [relevance |-> relevance, transcriptPath |-> path] @@ s

\* the loop of processSessionFiles, from file i on
RECURSIVE ProcessFrom(_, _, _, _, _)
ProcessFrom(filePaths, opts, clock, i, out) ==
    IF i > Len(filePaths) THEN out
    ELSE
        LET s == parseSessionFile(filePaths[i]) IN
        IF s = Thrown THEN Thrown   \* an exception leaves the loop
        ELSE IF s = Null THEN ProcessFrom(filePaths, opts, clock, i + 1, out)
        ELSE IF Len(s.userMessages) = 0
        THEN ProcessFrom(filePaths, opts, clock, i + 1, out)
        ELSE IF ~matchesFilters(s, opts, clock)
        THEN ProcessFrom(filePaths, opts, clock, i + 1, out)
        ELSE IF ~Keeps(opts, Relevance(s, opts))
        THEN ProcessFrom(filePaths, opts, clock, i + 1, out)
        ELSE ProcessFrom(filePaths, opts, clock, i + 1,
                Append(out, SearchResult(s, Relevance(s, opts),
                                         filePaths[i].path)))

\* processSessionFiles(filePaths, options)
processSessionFiles(filePaths, opts, clock) ==
    ProcessFrom(filePaths, opts, clock, 1, <<>>)

(***************************************************************************)
(* Specification SpecSearch: processSessionFiles applied to a list of      *)
(* transcripts on disk.                                                    *)
(***************************************************************************)
File(name, ls) == [path |-> name \o sJsonl, readable |-> TRUE, lines |-> ls]

EmailFile == File(<<"f", "1">>, <<ClaudeUser, ClaudeAssistantEdit>>)
OverseerFile == File(<<"f", "2">>, <<PiSession, PiUser, PiAssistantWrite>>)
NoUserFile == File(<<"f", "3">>, <<ClaudeAssistantOther>>)
MissingFile == [File(<<"f", "4">>, <<>>) EXCEPT !.readable = FALSE]
CorruptFile == File(<<"f", "5">>, <<Malformed, ClaudeUser>>)
BashFile == File(<<"f", "6">>, <<ClaudeUser, ClaudeAssistantOther>>)

TranscriptPool ==
    <<EmailFile, OverseerFile, NoUserFile, MissingFile, CorruptFile, BashFile>>

Given(s) == [given |-> TRUE, text |-> s]
At(time) == [given |-> TRUE, time |-> time]

QueryPool ==
    {NoString, Given(<<>>), Given(<<" ">>), Given(sEmail),
     Given(<<"E", "D", "I", "T", " ">> \o sOverseer),
     Given(<<"z", "z">>)}

OptionsPool ==
    {[query |-> q, days |-> d, since |-> si, until |-> un, tools |-> tl,
      filePattern |-> fp, limit |-> NoNumber] :
        q \in QueryPool,
        d \in {NoNumber, Num(3)},
        si \in {NoDate, At(Day(3))},
        un \in {NoDate, At(Day(3))},
        tl \in {<<>>, << <<"E", "d">> >>, << <<"B", "a", "s", "h">> >>},
        fp \in {<<>>, <<"A", "P", "I", "/">>}}

InitSearch ==
    /\ pc = "search"
    /\ \E ix \in IndexSeqs(Len(TranscriptPool), MaxFiles) : files = Pick(TranscriptPool, ix)
    /\ options \in OptionsPool
    /\ now = Day(6)
    /\ results = <<>>
    /\ ParseIdle
    /\ ScoreIdle
    /\ FilterIdle
    /\ DirsIdle

\* a caller hands the list of transcripts to processSessionFiles
ProcessSessionFiles ==
    /\ pc = "search"
    /\ results' = processSessionFiles(files, options, now)
    /\ pc' = "searched"
    /\ UNCHANGED <<content, sessionId, parsed, session, query, score, edit,
                   prevScore, files, options, now,
                   verdict, directories, hits>>

NextSearch == ProcessSessionFiles

SpecSearch == InitSearch /\ [][NextSearch]_vars

(***************************************************************************)
(* Claims about processSessionFiles.                                       *)
(***************************************************************************)
\* the categories in which some query term occurs
MatchedCategories(s, q) ==
    {c \in {"userMessages", "toolsUsed", "filesFromToolCalls"} :
        MatchingPairs(s[c], q) # {}}

\* C7: every result produced for a query carries the categories that
\* contributed to its score, each label at most once.
C7_ResultCarriesMatchedOn ==
    (pc = "searched" /\ QueryGiven(options)) =>
        \A k \in 1..Len(results) :
            /\ "matchedOn" \in DOMAIN results[k]
            /\ Len(results[k].matchedOn)
                   = Cardinality(Range(results[k].matchedOn))
            /\ Range(results[k].matchedOn)
                   = MatchedCategories(results[k], options.query.text)

\* file i parses, has a user message and passes the filters
Eligible(i) ==
    LET s == parseSessionFile(files[i]) IN
    /\ s # Null
    /\ Len(s.userMessages) > 0
    /\ matchesFilters(s, options, now)

\* the session part of result r is the session s
SameSession(r, s) == \A f \in DOMAIN s : r[f] = s[f]

\* C8: with no query (absent or the empty string) every session that
\* parses, has a user message and passes the filters is returned, with
\* relevance exactly 1.
C8_NoQueryKeepsAllWithRelevanceOne ==
    (pc = "searched" /\ ~QueryGiven(options)) =>
        /\ \A i \in 1..Len(files) :
               Eligible(i) =>
                   \E k \in 1..Len(results) :
                       /\ results[k].transcriptPath = files[i].path
                       /\ SameSession(results[k], parseSessionFile(files[i]))
        /\ \A k \in 1..Len(results) : results[k].relevance = 1
        /\ Len(results) = Cardinality({i \in 1..Len(files) : Eligible(i)})

C8_Witness ==
    /\ pc = "searched"
    /\ options.query = Given(<<>>)
    /\ options.tools # <<>>
    /\ Len(files) = 2
    /\ Len(results) = 1
    /\ results[1].relevance = 1

NoTermOccurs(s, q) == MatchedCategories(s, q) = {}

\* C9: with a query, a session in which no query term occurs in a user
\* message, tool name or file path scores 0 and is not returned; every
\* result has relevance > 0 and holds a query term in one of those fields.
C9_QueryExcludesNonMatching ==
    (pc = "searched" /\ QueryGiven(options)) =>
        /\ \A i \in 1..Len(files) :
               LET s == parseSessionFile(files[i]) IN
               (s # Null /\ NoTermOccurs(s, options.query.text)) =>
                   /\ scoreRelevance(s, options.query.text) = 0
                   /\ \A k \in 1..Len(results) :
                          results[k].transcriptPath # files[i].path
        /\ \A k \in 1..Len(results) :
               /\ results[k].relevance > 0
               /\ ~NoTermOccurs(results[k], options.query.text)

C9_Witness ==
    /\ pc = "searched"
    /\ QueryGiven(options)
    /\ Len(files) = 2
    /\ Len(results) = 1
    /\ \E i \in 1..Len(files) :
           /\ Eligible(i)
           /\ NoTermOccurs(parseSessionFile(files[i]), options.query.text)

(***************************************************************************)
(* Specification SpecFilter: matchesFilters applied to one session.        *)
(***************************************************************************)
sEd == <<"E", "d">>
sBashTitle == <<"B", "a", "s", "h">>
sEditUpper == <<"E", "D", "I", "T">>
sApiUpper == <<"A", "P", "I", "/">>
sZz == <<"z", "z">>

\* ExampleSession with other dates, tools and files
SessionWith(started, ended, tools, paths) ==
    [ExampleSession EXCEPT !.startedAt = started, !.endedAt = ended,
                           !.toolsUsed = tools, !.filesFromToolCalls = paths]

FilterSessions ==
    {SessionWith(st, en, tl, fl) :
        st \in {Day(1), Day(4)},
        en \in {NaN, Day(2), Day(3) - 1, Day(3), Day(3) + 1, Day(5)},
        tl \in {<<>>, <<sEdit>>, <<sBash, sRead>>},
        fl \in {<<>>, <<sReadme, sEmailPath>>}}

FilterOptions ==
    {[query |-> NoString, days |-> d, since |-> si, until |-> un,
      tools |-> tl, filePattern |-> fp, limit |-> NoNumber] :
        d \in {NoNumber, Num(0), Num(1), Num(3)},
        si \in {NoDate, At(Day(3)), At(NaN)},
        un \in {NoDate, At(Day(3))},
        tl \in {<<>>, <<sEd>>, <<sBashTitle>>, <<sZz, sEditUpper>>},
        fp \in {<<>>, sApiUpper, sZz}}

InitFilter ==
    /\ pc = "filter"
    /\ session \in FilterSessions
    /\ options \in FilterOptions
    /\ now = Day(6)
    /\ verdict = FALSE
    /\ query = <<>> /\ score = 0 /\ edit = NoEdit /\ prevScore = 0
    /\ files = <<>> /\ results = <<>>
    /\ ParseIdle
    /\ DirsIdle

\* a caller asks whether the session passes the filters of the options
MatchesFilters ==
    /\ pc = "filter"
    /\ verdict' = matchesFilters(session, options, now)
    /\ pc' = "filtered"
    /\ UNCHANGED <<content, sessionId, parsed, session, query, score, edit,
                   prevScore, files, options, now, results, directories,
                   hits>>

NextFilter == MatchesFilters

SpecFilter == InitFilter /\ [][NextFilter]_vars

(***************************************************************************)
(* Claims about matchesFilters.                                            *)
(***************************************************************************)
Filtered == pc = "filtered"

\* `pattern` occurs in `text` when letter case is ignored
OccursIgnoringCase(pattern, text) ==
    \E k \in 0..Len(text) :
        /\ k + Len(pattern) <= Len(text)
        /\ \A d \in 1..Len(pattern) :
               ToLowerChar(text[k + d]) = ToLowerChar(pattern[d])

\* some requested tool occurs in some tool name of the session
SomeToolOccurs ==
    \E t \in Range(options.tools) : \E u \in Range(session.toolsUsed) :
        OccursIgnoringCase(t, u)

NoDateBound ==
    ~options.days.given /\ ~options.since.given /\ ~options.until.given

\* C11: when options.tools is non-empty, a session passes only if some
\* requested tool name is a case-insensitive substring of some name in
\* session.toolsUsed, and with no other filter given it passes exactly then;
\* tool 'Bash' excludes a session whose tools are {'Edit'} and tool 'Ed'
\* includes it.
C11_ToolFilterIsSubstringMatch ==
    (Filtered /\ Len(options.tools) > 0) =>
        /\ verdict => SomeToolOccurs
        /\ (NoDateBound /\ options.filePattern = <<>>) =>
               (verdict <=> SomeToolOccurs)
        /\ (options.tools = <<sBashTitle>> /\ session.toolsUsed = <<sEdit>>)
               => ~verdict

C11_Witness ==
    /\ Filtered
    /\ options.tools = <<sEd>>
    /\ session.toolsUsed = <<sEdit>>
    /\ NoDateBound /\ options.filePattern = <<>>
    /\ verdict

\* the file pattern occurs in some extracted file path of the session
SomeFileMatches ==
    \E f \in Range(session.filesFromToolCalls) :
        OccursIgnoringCase(options.filePattern, f)

\* C12: when options.filePattern is given, a session passes only if the
\* pattern is a case-insensitive substring of some entry of
\* session.filesFromToolCalls, and with no other filter given it passes
\* exactly then; a session with no extracted file paths never passes.
C12_FilePatternIsSubstringMatch ==
    (Filtered /\ options.filePattern # <<>>) =>
        /\ verdict => SomeFileMatches
        /\ (NoDateBound /\ options.tools = <<>>) =>
               (verdict <=> SomeFileMatches)
        /\ session.filesFromToolCalls = <<>> => ~verdict

C12_Witness ==
    /\ Filtered
    /\ options.filePattern = sApiUpper
    /\ sEmailPath \in Range(session.filesFromToolCalls)
    /\ NoDateBound /\ options.tools = <<>>
    /\ verdict

NoOtherFilter ==
    ~options.until.given /\ options.tools = <<>> /\ options.filePattern = <<>>

\* the session ended more than n days before the clock reading
EndedMoreThanDaysAgo(n) ==
    session.endedAt # NaN /\ session.endedAt < now - n * MsPerDay

\* C13: for every N >= 1, a session whose endedAt is more than N days before
\* the time of evaluation is rejected when options.days = N-1 and no since
\* is given, and is accepted when no day or since bound (and no other
\* filter) is supplied.
C13_DayBoundRejectsOlder ==
    Filtered =>
        /\ (/\ options.days.given
            /\ ~options.since.given
            /\ EndedMoreThanDaysAgo(options.days.value + 1)) => ~verdict
        /\ (/\ ~options.days.given
            /\ ~options.since.given
            /\ NoOtherFilter) => verdict

StartPool == {Day(1), Day(4)}

\* the lower bound of the date range: the explicit since, else the clock
\* reading minus the given number of days
HasLowerBound == options.since.given \/ options.days.given
LowerBound ==
    IF options.since.given THEN options.since.time
    ELSE now - options.days.value * MsPerDay

Precedes(a, b) == a # NaN /\ b # NaN /\ a < b

\* C14: the date range is decided by endedAt alone: with no tool or file
\* filter, a session is rejected iff its endedAt precedes the lower bound
\* (the explicit since, else the bound derived from days) or exceeds an
\* explicit until, so endedAt equal to a bound passes; two sessions that
\* differ only in startedAt always get the same verdict.
C14_DateRangeByEndedAt ==
    Filtered =>
        /\ (options.tools = <<>> /\ options.filePattern = <<>>) =>
               (~verdict <=>
                    \/ HasLowerBound /\ Precedes(session.endedAt, LowerBound)
                    \/ /\ options.until.given
                       /\ Precedes(options.until.time, session.endedAt))
        /\ \A st \in StartPool :
               matchesFilters([session EXCEPT !.startedAt = st], options, now)
                   = verdict

(***************************************************************************)
(* file-based/search-lib.ts: searchSessions.  A directory is a record      *)
(* [path, readable, entries]; an entry of a directory is a record          *)
(* [name, isDirectory, readable, lines, entries], in readdirSync order.    *)
(***************************************************************************)
\* String.prototype.endsWith
EndsWith(s, suffix) ==
    /\ Len(s) >= Len(suffix)
    /\ SubSeq(s, Len(s) - Len(suffix) + 1, Len(s)) = suffix

\* path.join(dir, name)
Join(dir, name) == dir \o <<"/">> \o name

sClaudeProjects == <<".", "c", "l", "a", "u", "d", "e", "/", "p", "r", "o", "j", "e", "c", "t", "s">>
sPiSessions == <<".", "p", "i", "/", "a", "g", "e", "n", "t", "/", "s", "e", "s", "s", "i", "o", "n", "s">>
DEFAULT_CLAUDE_SESSIONS_DIR == <<"h", "/">> \o sClaudeProjects
DEFAULT_PI_SESSIONS_DIR == <<"h", "/">> \o sPiSessions

IsDirectoryEntry(e) == e.isDirectory
IsJsonlEntry(e) == EndsWith(e.name, sJsonl)

\* findSessionDirs(baseDir): the entries that are directories; none when
\* readdirSync throws
findSessionDirs(baseDir) ==
    IF ~baseDir.readable THEN <<>>
    ELSE LET ds == SelectSeq(baseDir.entries, IsDirectoryEntry) IN
         [i \in 1..Len(ds) |->
             [path |-> Join(baseDir.path, ds[i].name),
              readable |-> ds[i].readable,
              entries |-> ds[i].entries]]

\* findSessionFiles(dir, options): the entries named *.jsonl; none when
\* readdirSync throws.  A file is the record [path, readable, lines] that
\* parseSessionFile reads; reading a directory throws.
findSessionFiles(dir) ==
    IF ~dir.readable THEN <<>>
    ELSE LET fs == SelectSeq(dir.entries, IsJsonlEntry) IN
         [i \in 1..Len(fs) |->
             [path |-> Join(dir.path, fs[i].name),
              readable |-> fs[i].readable /\ ~fs[i].isDirectory,
              lines |-> fs[i].lines]]

\* for (const dir of sessionDirs) results.push(...processSessionFiles(
\*     findSessionFiles(dir, options), options))
RECURSIVE ProcessDirsFrom(_, _, _, _)
ProcessDirsFrom(sessionDirs, opts, clock, i) ==
    IF i > Len(sessionDirs) THEN <<>>
    ELSE processSessionFiles(findSessionFiles(sessionDirs[i]), opts, clock)
             \o ProcessDirsFrom(sessionDirs, opts, clock, i + 1)

IsClaudeBase(path) ==
    path = DEFAULT_CLAUDE_SESSIONS_DIR \/ EndsWith(path, sClaudeProjects)
IsPiBase(path) ==
    path = DEFAULT_PI_SESSIONS_DIR \/ EndsWith(path, sPiSessions)

\* the body of the loop over `directories` in searchSessions
SearchBaseDir(baseDir, opts, clock) ==
    LET sessionDirs == findSessionDirs(baseDir)
        own == processSessionFiles(findSessionFiles(baseDir), opts, clock)
    IN
    IF IsClaudeBase(baseDir.path)
    THEN ProcessDirsFrom(sessionDirs, opts, clock, 1)
    ELSE IF IsPiBase(baseDir.path)
    THEN IF Len(sessionDirs) > 0
         THEN ProcessDirsFrom(sessionDirs, opts, clock, 1)
         ELSE own
    ELSE ProcessDirsFrom(sessionDirs, opts, clock, 1) \o own

\* `results` of searchSessions before the sort
RECURSIVE CollectFrom(_, _, _, _)
CollectFrom(dirs, opts, clock, i) ==
    IF i > Len(dirs) THEN <<>>
    ELSE SearchBaseDir(dirs[i], opts, clock)
             \o CollectFrom(dirs, opts, clock, i + 1)

\* the comparator of results.sort: negative when a sorts before b.  The
\* difference of the time values is NaN when either is, and sort takes a
\* NaN returned by its comparator for +0.
Compare(a, b) ==
    IF a.relevance # b.relevance THEN b.relevance - a.relevance
    ELSE IF a.endedAt = NaN \/ b.endedAt = NaN THEN 0
    ELSE b.endedAt - a.endedAt

\* a stable insertion sort: x goes after the last element it does not
\* sort before
RECURSIVE InsertSorted(_, _, _)
InsertSorted(sorted, x, k) ==
    IF k = 0 \/ Compare(sorted[k], x) <= 0
    THEN SubSeq(sorted, 1, k) \o <<x>> \o SubSeq(sorted, k + 1, Len(sorted))
    ELSE InsertSorted(sorted, x, k - 1)

RECURSIVE InsertionSortFrom(_, _, _)
InsertionSortFrom(list, i, sorted) ==
    IF i > Len(list) THEN sorted
    ELSE InsertionSortFrom(list, i + 1,
                           InsertSorted(sorted, list[i], Len(sorted)))

InsertionSort(list) == InsertionSortFrom(list, 1, <<>>)

\* a stable merge: the right element is taken only if it sorts before the
\* left one
RECURSIVE Merge(_, _)
Merge(left, right) ==
    IF left = <<>> THEN right
    ELSE IF right = <<>> THEN left
    ELSE IF Compare(right[1], left[1]) < 0
    THEN <<right[1]>> \o Merge(left, Tail(right))
    ELSE <<left[1]>> \o Merge(Tail(left), right)

RECURSIVE MergeSort(_)
MergeSort(list) ==
    IF Len(list) <= 1 THEN list
    ELSE LET half == Len(list) \div 2 IN
         Merge(MergeSort(SubSeq(list, 1, half)),
               MergeSort(SubSeq(list, half + 1, Len(list))))

\* results.sort(comparator): Array.prototype.sort is stable, and with a
\* comparator that is not consistent (one returning NaN for some pairs)
\* the order is implementation-defined; the engine's algorithm is either
\* of two stable sorts, which agree under every consistent comparator
SortOutcomes(list) == {InsertionSort(list), MergeSort(list)}

DefaultLimit == 20

\* Array.prototype.slice(0, end)
Slice(list, end) ==
    IF end >= 0 THEN SubSeq(list, 1, IF end < Len(list) THEN end ELSE Len(list))
    ELSE SubSeq(list, 1, IF Len(list) + end > 0 THEN Len(list) + end ELSE 0)

\* options.limit || 20
Limit(opts) == IF Truthy(opts.limit) THEN opts.limit.value ELSE DefaultLimit

\* searchSessions(directories, options): the lists it can return
searchSessions(dirs, opts, clock) ==
    {Slice(sorted, Limit(opts)) :
        sorted \in SortOutcomes(CollectFrom(dirs, opts, clock, 1))}

(***************************************************************************)
(* Specification SpecList: searchSessions applied to a list of directory   *)
(* trees.                                                                  *)
(***************************************************************************)
FileEntry(name, ls) ==
    [name |-> name, isDirectory |-> FALSE, readable |-> TRUE, lines |-> ls,
     entries |-> <<>>]
DirEntry(name, es) ==
    [name |-> name, isDirectory |-> TRUE, readable |-> TRUE, lines |-> <<>>,
     entries |-> es]
BaseDir(path, es) == [path |-> path, readable |-> TRUE, entries |-> es]

\* a user record without a timestamp: the session's dates are Invalid Dates
ClaudeUserUndated == [ClaudeUser EXCEPT !.timestamp = NaN]

FirstEntry == FileEntry(<<"a">> \o sJsonl, <<ClaudeUser>>)
EditEntry == FileEntry(<<"b">> \o sJsonl, <<ClaudeUser, ClaudeAssistantEdit>>)
LastEntry == FileEntry(<<"c">> \o sJsonl, <<ClaudeUser, ClaudeAssistantOther>>)
TwinEntry == FileEntry(<<"d">> \o sJsonl, <<ClaudeUser>>)
PiEntry == FileEntry(<<"p">> \o sJsonl, <<PiSession, PiUser, PiAssistantWrite>>)
UndatedEntry == FileEntry(<<"x">> \o sJsonl, <<ClaudeUserUndated>>)
NotesEntry == FileEntry(<<"n", "o", "t", "e", "s", ".", "t", "x", "t">>, <<ClaudeUser>>)
MissingEntry == [FileEntry(<<"m">> \o sJsonl, <<>>) EXCEPT !.readable = FALSE]

WorkDir ==
    BaseDir(<<"w">>,
            <<DirEntry(<<"s">>, <<FirstEntry, LastEntry>>), EditEntry,
              NotesEntry>>)
ClaudeDir ==
    BaseDir(DEFAULT_CLAUDE_SESSIONS_DIR,
            <<DirEntry(<<"p">>, <<FirstEntry, EditEntry, UndatedEntry,
                                  LastEntry>>),
              LastEntry>>)
PiFlatDir == BaseDir(DEFAULT_PI_SESSIONS_DIR, <<PiEntry, FirstEntry>>)
PiNestedDir ==
    BaseDir(<<"x", "/">> \o sPiSessions,
            <<DirEntry(<<"q">>, <<PiEntry, TwinEntry>>), EditEntry>>)
TiesDir == BaseDir(<<"v">>, <<FirstEntry, TwinEntry, MissingEntry>>)
UndatedDir == BaseDir(<<"u">>, <<FirstEntry, UndatedEntry, EditEntry>>)
MissingDir == [BaseDir(<<"g">>, <<>>) EXCEPT !.readable = FALSE]

\* one more transcript than the default limit, all alike but for the name
CrowdedDir ==
    BaseDir(<<"k">>,
            [i \in 1..(DefaultLimit + 1) |->
                FileEntry([k \in 1..i |-> "a"] \o sJsonl, <<ClaudeUser>>)])

DirPool ==
    <<WorkDir, ClaudeDir, PiFlatDir, PiNestedDir, TiesDir, UndatedDir,
      MissingDir>>

ListOptions ==
    {[NoOptions EXCEPT !.query = q, !.limit = l] :
        q \in {NoString, Given(sEmail)},
        l \in {NoNumber, Num(0), Num(1), Num(2)}}

InitList ==
    /\ pc = "list"
    /\ directories \in SeqsUpTo(DirPool, MaxDirs) \cup {<<CrowdedDir>>}
    /\ options \in ListOptions
    /\ now = Day(6)
    /\ hits = <<>>
    /\ files = <<>> /\ results = <<>>
    /\ ParseIdle
    /\ ScoreIdle
    /\ FilterIdle

\* a caller searches the directories
SearchSessions ==
    /\ pc = "list"
    /\ hits' \in searchSessions(directories, options, now)
    /\ pc' = "listed"
    /\ UNCHANGED <<content, sessionId, parsed, session, query, score, edit,
                   prevScore, files, options, now, results, verdict,
                   directories>>

NextList == SearchSessions

SpecList == InitList /\ [][NextList]_vars

(***************************************************************************)
(* Claims about searchSessions.                                            *)
(***************************************************************************)
Listed == pc = "listed"

\* the candidates of the search in the order their transcripts are
\* enumerated
Candidates == CollectFrom(directories, options, now, 1)

\* C15: the list returned by searchSessions is ordered by descending
\* relevance and, among results of equal relevance, by descending endedAt
\* (no result ended earlier than one listed after it); results equal on
\* both keys keep the order in which their transcripts were enumerated.
C15_OrderedByRelevanceThenDate ==
    Listed =>
        LET cand == Candidates IN
        \A i \in 1..Len(hits) : \A j \in (i + 1)..Len(hits) :
            /\ hits[i].relevance >= hits[j].relevance
            /\ hits[i].relevance = hits[j].relevance =>
                   ~Precedes(hits[i].endedAt, hits[j].endedAt)
            /\ (/\ hits[i].relevance = hits[j].relevance
                /\ hits[i].endedAt = hits[j].endedAt) =>
                   \E p \in 1..Len(cand) : \E q \in (p + 1)..Len(cand) :
                       cand[p] = hits[i] /\ cand[q] = hits[j]

\* candidate c ranks above result h in the sort order
RanksAbove(c, h) ==
    \/ c.relevance > h.relevance
    \/ c.relevance = h.relevance /\ Precedes(h.endedAt, c.endedAt)

\* the requested limit, 20 when none is given
RequestedLimit ==
    IF options.limit.given THEN options.limit.value ELSE DefaultLimit

Min(a, b) == IF a <= b THEN a ELSE b

\* C16: for every requested limit L (20 when none is given), searchSessions
\* returns min(L, n) of the n eligible candidates across all directories,
\* never more than L, every one of them a candidate, and no omitted
\* candidate ranks above a returned one.
C16_LimitKeepsTopRanked ==
    Listed =>
        LET cand == Candidates IN
        /\ Len(hits) = Min(RequestedLimit, Len(cand))
        /\ Len(hits) <= RequestedLimit
        /\ Range(hits) \subseteq Range(cand)
        /\ \A c \in Range(cand) \ Range(hits) : \A h \in Range(hits) :
               ~RanksAbove(c, h)

(***************************************************************************)
(* Specification SpecIsolation: processSessionFiles applied to a list that *)
(* mixes good transcripts with transcripts that cannot be parsed.          *)
(***************************************************************************)
ClaudeUserNoMessage == [ClaudeUser EXCEPT !.message = NoMessage]

EmptyFile == File(<<"e", "1">>, <<>>)
UnknownFile == File(<<"e", "2">>, <<ClaudeSummary, ClaudeUser>>)
OldPiFile == File(<<"e", "3">>, <<PiSessionOld, PiUser>>)
NoTurnFile == File(<<"e", "4">>, <<PiSession, PiModelChange>>)
NullLineFile == File(<<"e", "5">>, <<PiSession, NullLiteral, PiUser>>)
NoMessageFile == File(<<"e", "6">>, <<ClaudeUser, ClaudeUserNoMessage>>)
NoisyFile == File(<<"e", "7">>, <<ClaudeUser, Malformed, NullLiteral>>)

FaultyPool ==
    <<EmailFile, OverseerFile, NoUserFile, MissingFile, CorruptFile,
      EmptyFile, UnknownFile, OldPiFile, NoTurnFile, NullLineFile,
      NoMessageFile, NoisyFile>>

IsolationOptions ==
    {[NoOptions EXCEPT !.query = q] : q \in {NoString, Given(sEmail)}}

InitIsolation ==
    /\ pc = "search"
    /\ \E ix \in IndexSeqs(Len(FaultyPool), MaxFiles) : files = Pick(FaultyPool, ix)
    /\ options \in IsolationOptions
    /\ now = Day(6)
    /\ results = <<>>
    /\ ParseIdle
    /\ ScoreIdle
    /\ FilterIdle
    /\ DirsIdle

SpecIsolation == InitIsolation /\ [][NextSearch]_vars

(***************************************************************************)
(* Claims about failure isolation.                                         *)
(***************************************************************************)
\* the first line is not JSON, or is JSON that starts neither dialect
UnknownDialect(f) ==
    \/ f.lines[1].kind # "object"
    \/ /\ ~(f.lines[1].type = "session" /\ f.lines[1].version = 3)
       /\ f.lines[1].type \notin {"user", "assistant"}

StartsPi(f) == f.lines[1].type = "session"

\* well-formed JSON of a shape the dialect's normaliser cannot read: the
\* literal null in a Pi transcript, a turn without a message in a Claude one
Misshapen(f) ==
    \E i \in 1..Len(f.lines) :
        LET line == f.lines[i] IN
        IF StartsPi(f) THEN line.kind = "null"
        ELSE /\ line.kind = "object"
             /\ line.type \in {"user", "assistant"}
             /\ ~line.message.present

\* the transcript holds no conversational record of its dialect
NoTurns(f) ==
    \A i \in 1..Len(f.lines) :
        LET line == f.lines[i] IN
        \/ line.kind # "object"
        \/ IF StartsPi(f)
           THEN ~(/\ line.type = "message"
                  /\ line.message.role \in {"user", "assistant"})
           ELSE line.type \notin {"user", "assistant"}

\* a transcript that is missing or unreadable, empty, malformed from its
\* first line or in the shape of a record, of an unknown dialect, or
\* without a conversational record
BadFile(f) ==
    \/ ~f.readable
    \/ f.lines = <<>>
    \/ UnknownDialect(f)
    \/ Misshapen(f)
    \/ NoTurns(f)

\* the list without its bad files
RECURSIVE WithoutBad(_)
WithoutBad(fs) ==
    IF fs = <<>> THEN <<>>
    ELSE IF BadFile(fs[1]) THEN WithoutBad(Tail(fs))
    ELSE <<fs[1]>> \o WithoutBad(Tail(fs))

\* C17: parseSessionFile returns null, and does not throw, for a missing,
\* unreadable, malformed, unknown-dialect or empty transcript;
\* processSessionFiles over a list containing such files returns exactly
\* what it returns for the list with those files removed, and the empty
\* list if every file is bad.
C17_BadFilesAreIsolated ==
    pc = "searched" =>
        /\ \A i \in 1..Len(files) :
               BadFile(files[i]) => parseSessionFile(files[i]) = Null
        /\ results = processSessionFiles(WithoutBad(files), options, now)
        /\ WithoutBad(files) = <<>> => results = <<>>

C17_Witness ==
    /\ pc = "searched"
    /\ Len(files) = MaxFiles
    /\ BadFile(files[1])
    /\ parseSessionContent(files[1].lines, files[1].path) = Thrown
    /\ ~BadFile(files[Len(files)])
    /\ Len(results) = 1

(***************************************************************************)
(* Specification SpecIdentity: parseSessionContent applied to transcripts  *)
(* with and without an embedded identifier, under paths that do and do not *)
(* end in a session file name.                                             *)
(***************************************************************************)
sOtherSid == <<"s", "2">>
sUpperUuid == <<"1", "2", "3", "E", "4", "5", "6", "7", "-", "E", "8", "9", "B", "-", "1", "2", "D", "3", "-", "A", "4", "5", "6", "-", "4", "2", "6", "6", "1", "4", "1", "7", "4", "0", "0", "0">>
sShortName == <<"1", "2", "3", "e", "4", "5", "6", "7", "-", "e", "8", "9", "b", "-", "1", "2", "d", "3", "-", "a", "4", "5", "6", "-", "4", "2", "6", "6", "1", "4", "1", "7", "4", "0", "0">>

ClaudeUserOtherSid == [ClaudeUser EXCEPT !.sessionId = sOtherSid]
PiSessionNoId == [PiSession EXCEPT !.id = <<>>]
PiSessionOtherSid == [PiSession EXCEPT !.id = sOtherSid]

IdLinePool ==
    <<ClaudeUser, ClaudeUserBlank, ClaudeUserOtherSid, ClaudeSummary,
      PiSession, PiSessionNoId, PiSessionOtherSid, PiUser>>

\* no path; a plain name; a session file name; one in upper case; one a
\* character short; one without the extension; one with a longer name
IdPathPool ==
    {<<>>, sPlainPath, sUuidPath,
     <<"/", "s", "/">> \o sUpperUuid \o sJsonl,
     <<"/", "s", "/">> \o sShortName \o sJsonl,
     <<"/", "s", "/">> \o sUuid,
     <<"/", "s", "/", "a", "b">> \o sUuid \o sJsonl}

InitIdentity ==
    /\ pc = "parse"
    /\ \E ix \in IndexSeqs(Len(IdLinePool), MaxLines) : content = Pick(IdLinePool, ix)
    /\ sessionId \in IdPathPool
    /\ parsed = Null
    /\ ScoreIdle
    /\ SearchIdle
    /\ FilterIdle
    /\ DirsIdle

SpecIdentity == InitIdentity /\ [][NextParse]_vars

(***************************************************************************)
(* Claims about the session identifier.                                    *)
(***************************************************************************)
LowerHexOrHyphen(c) ==
    \/ c \in {"0", "1", "2", "3", "4", "5", "6", "7", "8", "9"}
    \/ c \in {"a", "b", "c", "d", "e", "f"}
    \/ c = "-"

\* the names of IdLen hexadecimal-or-hyphen characters that the path ends
\* in, before a final '.jsonl'
PathNames(path) ==
    {SubSeq(path, k, k + IdLen - 1) :
        k \in {k \in 1..Len(path) :
                  /\ k + IdLen + Len(sJsonl) - 1 = Len(path)
                  /\ \A i \in k..(k + IdLen - 1) : LowerHexOrHyphen(path[i])
                  /\ \A i \in 1..Len(sJsonl) :
                         path[k + IdLen - 1 + i] = sJsonl[i]}}

\* the identifier embedded in the transcript: the sessionId of the first
\* conversational record (Claude), the id of the session record (Pi)
EmbeddedId(lines) ==
    IF lines[1].type = "session"
    THEN LET k == CHOOSE i \in 1..Len(lines) :
                      /\ lines[i].kind = "object" /\ lines[i].type = "session"
                      /\ \A j \in 1..(i - 1) :
                             ~(/\ lines[j].kind = "object"
                               /\ lines[j].type = "session")
         IN lines[k].id
    ELSE LET k == CHOOSE i \in 1..Len(lines) :
                      /\ lines[i].kind = "object"
                      /\ lines[i].type \in {"user", "assistant"}
                      /\ \A j \in 1..(i - 1) :
                             ~(/\ lines[j].kind = "object"
                               /\ lines[j].type \in {"user", "assistant"})
         IN lines[k].sessionId

\* C18: the id of a returned record is the 36-character name of
\* hexadecimal digits and hyphens taken from the path when the path ends in
\* such a name followed by '.jsonl'; otherwise the identifier embedded in
\* the transcript, if it has one; otherwise 'unknown'.  The embedded
\* identifier is never used when the path matches.
C18_IdFromPathThenEmbedded ==
    Returned =>
        /\ \A n \in PathNames(sessionId) : parsed.id = n
        /\ PathNames(sessionId) = {} =>
               parsed.id = IF EmbeddedId(content) # <<>>
                           THEN EmbeddedId(content)
                           ELSE sUnknown

C18_Witness ==
    /\ Returned
    /\ sessionId = sUuidPath
    /\ EmbeddedId(content) = sOtherSid
    /\ parsed.id = sUuid

(***************************************************************************)
(* Specification SpecBlank: parseSessionContent applied to transcripts     *)
(* whose user turns carry text, blank text, or no text at all.             *)
(***************************************************************************)
ClaudeUserEmpty ==
    [ClaudeUser EXCEPT !.message = Message("user", StrContent(<<>>), "",
                                           NoUsage)]
ClaudeUserBlocks ==
    [ClaudeUser EXCEPT
        !.message = Message("user", ArrContent(<<TextBlock(sEmailMsg)>>), "",
                            NoUsage)]
ClaudeUserNoContent ==
    [ClaudeUser EXCEPT !.message = Message("user", NoContent, "", NoUsage)]
PiUserBlank ==
    [PiUser EXCEPT
        !.message = Message("user", ArrContent(<<TextBlock(sBlank)>>), "",
                            NoUsage)]
PiUserEmpty ==
    [PiUser EXCEPT
        !.message = Message("user",
                            ArrContent(<<TextBlock(<<>>),
                                         TextBlock(sOverseer)>>),
                            "", NoUsage)]
PiUserString ==
    [PiUser EXCEPT !.message = Message("user", StrContent(sOverseer), "",
                                       NoUsage)]

BlankLinePool ==
    <<ClaudeUser, ClaudeUserBlank, ClaudeUserEmpty, ClaudeUserBlocks,
      ClaudeUserNoContent, PiSession, PiUser, PiUserBlank, PiUserEmpty,
      PiUserString>>

InitBlank ==
    /\ pc = "parse"
    /\ \E ix \in IndexSeqs(Len(BlankLinePool), MaxLines) : content = Pick(BlankLinePool, ix)
    /\ sessionId = sPlainPath
    /\ parsed = Null
    /\ ScoreIdle
    /\ SearchIdle
    /\ FilterIdle
    /\ DirsIdle

SpecBlank == InitBlank /\ [][NextParse]_vars

(***************************************************************************)
(* Claims about blank user turns.                                          *)
(***************************************************************************)
\* empty, or made of white space only
Blank(text) == \A i \in 1..Len(text) : text[i] \in {" ", "\t", "\n", "\r"}

\* C19: in both dialects a user turn whose text is blank or absent
\* contributes nothing to userMessages: no entry of userMessages in a
\* returned record is empty or whitespace-only.
C19_NoBlankUserMessage ==
    Returned =>
        \A i \in 1..Len(parsed.userMessages) : ~Blank(parsed.userMessages[i])

(***************************************************************************)
(* Specification SpecExtract: parseSessionContent applied to transcripts   *)
(* whose assistant turns invoke tools with nested argument objects.        *)
(***************************************************************************)
sWrite == <<"w", "r", "i", "t", "e">>
sNestedPath == <<"a", "/", "b">>
sWindowsPath == <<"c", ":", "\\", "x">>
sListedPath == <<"c", "/", "d">>
sNamelessPath == <<"n", "/", "o">>
sDeepPath == <<"x", "/", "y">>

ClaudeAssistantNested ==
    [ClaudeAssistantEdit EXCEPT
        !.message = Message("assistant",
            ArrContent(<<ToolUse(sWrite, ObjVal(<<
                Entry("options",
                      ObjVal(<<Entry("target",
                                     ObjVal(<<Entry("path",
                                                    StrVal(sNestedPath))>>)),
                               Entry("file", StrVal(sReadme))>>)),
                Entry("filename", OtherVal),
                Entry("path", ArrVal(<<StrVal(sListedPath)>>)),
                Entry("filePath", StrVal(sWindowsPath)),
                Entry("file_path", StrVal(sNestedPath))>>))>>),
            "m1", NoUsage)]
ClaudeAssistantNameless ==
    [ClaudeAssistantEdit EXCEPT
        !.message = Message("assistant",
            ArrContent(<<ToolUse(<<>>, ObjVal(<<Entry("file_path",
                                                     StrVal(sNamelessPath))>>)),
                         ToolUse(sRead, NoVal)>>),
            "m1", NoUsage)]
PiAssistantDeep ==
    [PiAssistantWrite EXCEPT
        !.message = Message("assistant",
            ArrContent(<<ToolCall(sWrite, ObjVal(<<
                Entry("a", ObjVal(<<Entry("b",
                    ObjVal(<<Entry("filename", StrVal(sDeepPath)),
                             Entry("content", StrVal(sEmailPath))>>))>>)),
                Entry("file", StrVal(<<>>))>>))>>),
            "m3", NoUsage)]

ExtractLinePool ==
    <<ClaudeUser, ClaudeAssistantEdit, ClaudeAssistantNested,
      ClaudeAssistantNameless, PiSession, PiUser, PiAssistantWrite,
      PiAssistantDeep>>

InitExtract ==
    /\ pc = "parse"
    /\ \E ix \in IndexSeqs(Len(ExtractLinePool), MaxLines) : content = Pick(ExtractLinePool, ix)
    /\ sessionId = sPlainPath
    /\ parsed = Null
    /\ ScoreIdle
    /\ SearchIdle
    /\ FilterIdle
    /\ DirsIdle

SpecExtract == InitExtract /\ [][NextParse]_vars

(***************************************************************************)
(* Claims about file-path extraction.                                      *)
(***************************************************************************)
\* the argument objects of the tool invocations of the transcript: the
\* named tool_use blocks of assistant records (Claude), the named toolCall
\* blocks of assistant messages (Pi)
Invocations(lines) ==
    LET pi == lines[1].type = "session"
        turns == {i \in 1..Len(lines) :
                    /\ lines[i].kind = "object"
                    /\ IF pi THEN /\ lines[i].type = "message"
                                  /\ lines[i].message.role = "assistant"
                       ELSE lines[i].type = "assistant"}
        blocks == UNION {Range(lines[i].message.content.blocks) : i \in turns}
    IN {IF pi THEN b.arguments ELSE b.input :
           b \in {b \in blocks :
                     /\ b.type = IF pi THEN "toolCall" ELSE "tool_use"
                     /\ b.name # <<>>}}

\* the entries an argument value holds at any nesting depth of plain objects
RECURSIVE Held(_)
Held(value) ==
    IF value.kind # "object" THEN {}
    ELSE Range(value.obj) \cup UNION {Held(e.val) : e \in Range(value.obj)}

HasSeparator(text) == \E i \in 1..Len(text) : text[i] \in {"/", "\\"}

AllowListed(key) ==
    key \in {"file_path", "path", "file", "filename", "filePath"}

\* C20: filesFromToolCalls contains a string v iff some tool invocation's
\* argument object holds v, at any nesting depth of plain objects, under one
\* of the keys file_path, path, file, filename, filePath and v contains
\* '/' or '\'; values under other keys, non-string values and strings
\* without a separator are never added.
C20_FilePathsFromPlainObjects ==
    Returned =>
        Range(parsed.filesFromToolCalls) =
            {e.val.str :
                e \in {e \in UNION {Held(a) : a \in Invocations(content)} :
                          /\ AllowListed(e.key)
                          /\ e.val.kind = "string"
                          /\ HasSeparator(e.val.str)}}

C20_Witness ==
    /\ Returned
    /\ ClaudeAssistantNested \in Range(content)
    /\ ClaudeAssistantEdit \in Range(content)
    /\ Range(parsed.filesFromToolCalls)
           = {sNestedPath, sWindowsPath, sEmailPath}

(***************************************************************************)
(* Specification SpecArrays: parseSessionContent applied to transcripts    *)
(* whose tool arguments hold arrays.                                       *)
(***************************************************************************)
sMultiEdit == <<"M", "u", "l", "t", "i", "E", "d", "i", "t">>
sElementPath == <<"e", "/", "f">>
sPrimitivePath == <<"g", "/", "h">>
sTopPath == <<"k", "/", "l">>
sPiElementPath == <<"p", "/", "q">>
sItemPath == <<"t", "/", "u">>

\* {"edits":[{"file_path":"e/f"},"g/h"],"path":["c/d"],"file":"k/l"}
ClaudeAssistantListed ==
    [ClaudeAssistantEdit EXCEPT
        !.message = Message("assistant",
            ArrContent(<<ToolUse(sMultiEdit, ObjVal(<<
                Entry("edits",
                      ArrVal(<<ObjVal(<<Entry("file_path",
                                              StrVal(sElementPath))>>),
                               StrVal(sPrimitivePath)>>)),
                Entry("path", ArrVal(<<StrVal(sListedPath)>>)),
                Entry("file", StrVal(sTopPath))>>))>>),
            "m1", NoUsage)]
\* the input of the tool is itself an array: [{"path":"t/u"},"g/h"]
ClaudeAssistantArrayInput ==
    [ClaudeAssistantEdit EXCEPT
        !.message = Message("assistant",
            ArrContent(<<ToolUse(sWrite,
                ArrVal(<<ObjVal(<<Entry("path", StrVal(sItemPath))>>),
                         StrVal(sPrimitivePath)>>))>>),
            "m1", NoUsage)]
\* {"files":[{"path":"p/q"}],"filename":["g/h"]}
PiAssistantListed ==
    [PiAssistantWrite EXCEPT
        !.message = Message("assistant",
            ArrContent(<<ToolCall(sWrite, ObjVal(<<
                Entry("files",
                      ArrVal(<<ObjVal(<<Entry("path",
                                              StrVal(sPiElementPath))>>)>>)),
                Entry("filename", ArrVal(<<StrVal(sPrimitivePath)>>))>>))>>),
            "m3", NoUsage)]

ArrayLinePool ==
    <<ClaudeUser, ClaudeAssistantEdit, ClaudeAssistantListed,
      ClaudeAssistantArrayInput, PiSession, PiUser, PiAssistantListed>>

InitArrays ==
    /\ pc = "parse"
    /\ \E ix \in IndexSeqs(Len(ArrayLinePool), MaxLines) :
           content = Pick(ArrayLinePool, ix)
    /\ sessionId = sPlainPath
    /\ parsed = Null
    /\ ScoreIdle
    /\ SearchIdle
    /\ FilterIdle
    /\ DirsIdle

SpecArrays == InitArrays /\ [][NextParse]_vars

(***************************************************************************)
(* Claims about arrays in tool arguments.                                  *)
(***************************************************************************)
\* the entries an argument value holds at any nesting depth of plain
\* objects, a plain object that is an element of an array being re-entered
RECURSIVE HeldThroughArrays(_)
HeldThroughArrays(value) ==
    IF value.kind = "object"
    THEN Range(value.obj)
             \cup UNION {HeldThroughArrays(e.val) : e \in Range(value.obj)}
    ELSE IF value.kind = "array"
    THEN UNION {HeldThroughArrays(v) :
                   v \in {v \in Range(value.obj) : v.kind = "object"}}
    ELSE {}

\* the strings with a separator under an allow-listed key among entries
PathsAmong(entries) ==
    {e.val.str : e \in {e \in entries : /\ AllowListed(e.key)
                                        /\ e.val.kind = "string"
                                        /\ HasSeparator(e.val.str)}}

\* C21: nothing is added from an array of primitives and an array is not a
\* nesting level of its own, but a plain object that is an element of an
\* array inside the tool arguments is re-entered: filesFromToolCalls is the
\* set of separator-bearing strings under allow-listed keys of the
\* arguments' plain objects, those inside arrays included.
C21_ArrayElementsReentered ==
    Returned =>
        Range(parsed.filesFromToolCalls) =
            PathsAmong(UNION {HeldThroughArrays(a) :
                                 a \in Invocations(content)})

\* the part of C21 the code keeps: a string that is an element of an array
\* is never added, and every path added is under an allow-listed key
C21_PrimitivesNeverAdded ==
    Returned =>
        /\ sPrimitivePath \notin Range(parsed.filesFromToolCalls)
        /\ sListedPath \notin Range(parsed.filesFromToolCalls)
        /\ Range(parsed.filesFromToolCalls) \subseteq
               PathsAmong(UNION {HeldThroughArrays(a) :
                                    a \in Invocations(content)})

(***************************************************************************)
(* Claims about Pi tool-result records (specification SpecParse).          *)
(***************************************************************************)
ToolResultRecord(line) ==
    /\ line.kind = "object"
    /\ line.type = "message"
    /\ line.message.role = "toolResult"
NotToolResultRecord(line) == ~ToolResultRecord(line)
PiTurnRecord(line) ==
    /\ line.kind = "object"
    /\ line.type = "message"
    /\ line.message.role \in {"user", "assistant"}
SessionRecord(line) == line.kind = "object" /\ line.type = "session"

\* the tool names the tool-result records of the transcript carry
ToolResultNames(lines) ==
    {lines[i].toolName :
        i \in {i \in 1..Len(lines) : /\ ToolResultRecord(lines[i])
                                     /\ lines[i].toolName # <<>>}}

\* C22: in the Pi dialect a tool-result record that carries a tool name
\* adds that name to toolsUsed and changes nothing else: the transcript
\* parses to null exactly when it does without its tool-result records, a
\* returned record differs from the one without them in toolsUsed only
\* (so messageCount, startedAt and endedAt ignore them), and a transcript
\* whose only non-session records are tool results parses to null.
C22_ToolResultOnlyNamesTool ==
    (pc = "parsed" /\ Len(content) > 0 /\ FirstIsPi) =>
        LET bare == parseSessionContent(
                        SelectSeq(content, NotToolResultRecord), sessionId)
        IN
        /\ (parsed = Null) <=> (bare = Null)
        /\ Returned =>
              /\ Range(parsed.toolsUsed)
                     = Range(bare.toolsUsed) \cup ToolResultNames(content)
              /\ [parsed EXCEPT !.toolsUsed = <<>>]
                     = [bare EXCEPT !.toolsUsed = <<>>]
              /\ parsed.messageCount
                     = Cardinality({i \in 1..Len(content) :
                                       PiTurnRecord(content[i])})
        /\ (\A i \in 1..Len(content) :
               SessionRecord(content[i]) \/ ToolResultRecord(content[i]))
               => parsed = Null

\* a returned Pi record whose last line is a named tool result, later than
\* every turn: the name is in toolsUsed and endedAt is the turn's time
C22_Witness ==
    /\ Returned
    /\ FirstIsPi
    /\ Len(content) = 3
    /\ ToolResultRecord(content[3])
    /\ content[3].toolName \in Range(parsed.toolsUsed)
    /\ parsed.messageCount = 1
    /\ parsed.endedAt < NewDate(content[3].timestamp)

(***************************************************************************)
(* Specification SpecModels: parseSessionContent applied to transcripts    *)
(* whose assistant turns name a model with and without usage.              *)
(***************************************************************************)
\* an assistant turn that names its model and carries no usage
ClaudeAssistantQuiet ==
    [NoLine EXCEPT !.type = "assistant", !.timestamp = Day(4),
        !.message = Message("assistant", NoContent, "m2", NoUsage)]
\* the model at the top level of the record, no usage at either level
PiAssistantQuiet ==
    [NoLine EXCEPT !.type = "message", !.timestamp = Day(4),
        !.model = "m6",
        !.message = Message("assistant", NoContent, "", NoUsage)]
\* the model and the usage at the top level of the record
PiAssistantTop ==
    [NoLine EXCEPT !.type = "message", !.timestamp = Day(5),
        !.model = "m4", !.usage = PiUsage(2, 1, 0, 1),
        !.message = Message("assistant", NoContent, "m3", NoUsage)]

ModelLinePool ==
    <<ClaudeUser, ClaudeAssistantEdit, ClaudeAssistantQuiet, PiSession,
      PiUser, PiAssistantWrite, PiAssistantQuiet, PiAssistantTop,
      PiModelChange>>

InitModels ==
    /\ pc = "parse"
    /\ \E ix \in IndexSeqs(Len(ModelLinePool), MaxLines) :
           content = Pick(ModelLinePool, ix)
    /\ sessionId = sPlainPath
    /\ parsed = Null
    /\ ScoreIdle
    /\ SearchIdle
    /\ FilterIdle
    /\ DirsIdle

SpecModels == InitModels /\ [][NextParse]_vars

(***************************************************************************)
(* Claims about the per-model buckets.                                     *)
(***************************************************************************)
\* the assistant turns of the transcript, by position
AssistantTurns(lines) ==
    {i \in 1..Len(lines) :
        /\ lines[i].kind = "object"
        /\ IF lines[1].type = "session"
           THEN lines[i].type = "message" /\ lines[i].message.role = "assistant"
           ELSE lines[i].type = "assistant"}

\* the model an assistant turn names, "" when it names none
AuthorOf(lines, i) ==
    IF lines[1].type = "session" /\ lines[i].model # "" THEN lines[i].model
    ELSE lines[i].message.model

CarriesUsage(lines, i) ==
    \/ lines[i].message.usage.present
    \/ lines[1].type = "session" /\ lines[i].usage.present

\* the models that author an assistant turn
Authors(lines) ==
    {AuthorOf(lines, i) : i \in AssistantTurns(lines)} \ {""}
\* the models that author an assistant turn carrying usage
AuthorsWithUsage(lines) ==
    {AuthorOf(lines, i) :
        i \in {i \in AssistantTurns(lines) : CarriesUsage(lines, i)}} \ {""}
\* the models the model-change records of a Pi transcript name
ChangedTo(lines) ==
    IF lines[1].type # "session" THEN {}
    ELSE {lines[i].modelId :
             i \in {i \in 1..Len(lines) : /\ lines[i].kind = "object"
                                          /\ lines[i].type = "model_change"}}
         \ {""}

\* C23 as claimed: a model has an entry in modelTokens only if it is seen
\* on an assistant turn that also carries usage; a model of a model-change
\* record that authors no turn with usage is in modelsUsed and has no entry.
C23_BucketOnlyWithUsage ==
    Returned =>
        /\ DOMAIN parsed.modelTokens \subseteq AuthorsWithUsage(content)
        /\ \A m \in ChangedTo(content) \ AuthorsWithUsage(content) :
               /\ m \in Range(parsed.modelsUsed)
               /\ m \notin DOMAIN parsed.modelTokens

\* C23 as amended: a model has an entry in modelTokens exactly if it is
\* named on an assistant turn, with or without usage, and the entry is all
\* zeros when none of its turns carries usage; a model of a Pi model-change
\* record that authors no turn is in modelsUsed and has no entry.
C23_BucketForEveryAuthor ==
    Returned =>
        /\ DOMAIN parsed.modelTokens = Authors(content)
        /\ \A m \in Authors(content) \ AuthorsWithUsage(content) :
               parsed.modelTokens[m] = ZeroTokens
        /\ Range(parsed.modelsUsed) = Authors(content) \cup ChangedTo(content)
        /\ \A m \in ChangedTo(content) \ Authors(content) :
               m \notin DOMAIN parsed.modelTokens

\* a model-change record names m4, which authors nothing, and the only
\* assistant turn names m6 and carries no usage
C23_Witness ==
    /\ Returned
    /\ "m4" \in Range(parsed.modelsUsed)
    /\ "m4" \notin DOMAIN parsed.modelTokens
    /\ "m6" \in DOMAIN parsed.modelTokens
    /\ parsed.modelTokens["m6"] = ZeroTokens
    /\ AuthorsWithUsage(content) = {}

(***************************************************************************)
(* Specification SpecShapes: parseSessionContent applied to transcripts    *)
(* whose lines are valid JSON of an unexpected shape.                      *)
(***************************************************************************)
\* {"type":"assistant","timestamp":...} with no message field
ClaudeAssistantNoMessage == [ClaudeAssistantEdit EXCEPT !.message = NoMessage]
\* {"type":"message","timestamp":...} with no message field
PiNoMessage == [PiUser EXCEPT !.message = NoMessage]

ShapeLinePool ==
    <<ClaudeUser, ClaudeUserNoMessage, ClaudeAssistantEdit,
      ClaudeAssistantNoMessage, PiSession, PiUser, PiNoMessage, NullLiteral,
      Malformed>>

InitShapes ==
    /\ pc = "parse"
    /\ \E ix \in IndexSeqs(Len(ShapeLinePool), MaxLines) :
           content = Pick(ShapeLinePool, ix)
    /\ sessionId = sPlainPath
    /\ parsed = Null
    /\ ScoreIdle
    /\ SearchIdle
    /\ FilterIdle
    /\ DirsIdle

SpecShapes == InitShapes /\ [][NextParse]_vars

(***************************************************************************)
(* Claims about exceptions of the parser.                                  *)
(***************************************************************************)
\* C24: parseSessionContent never throws: for every transcript, those with
\* lines that are valid JSON of an unexpected shape included (the literal
\* null, a user or assistant record without message), it returns a
\* canonical record or null.
C24_NeverThrows == pc = "parsed" => parsed # Thrown

\* the throw comes from two shapes only: a null line after the header of a
\* Pi transcript, and a user or assistant record without message in a
\* Claude transcript; a null line in a Claude transcript, a null first
\* line and a Pi message record without message are survived
C24_ThrowsOnlyOnTwoShapes ==
    (pc = "parsed" /\ parsed = Thrown) =>
        \/ /\ FirstIsPi
           /\ \E i \in 2..Len(content) : content[i].kind = "null"
        \/ /\ FirstIsClaude
           /\ \E i \in 1..Len(content) :
                 /\ content[i].kind = "object"
                 /\ content[i].type \in {"user", "assistant"}
                 /\ ~content[i].message.present

(***************************************************************************)
(* Claims about queries without terms (specification SpecSearch).          *)
(***************************************************************************)
\* the query string holds nothing but white space (the empty string too)
WithoutTerms(text) == \A i \in 1..Len(text) : text[i] \in {" ", "\t"}

\* C25: a query that yields no terms after splitting on whitespace behaves
\* like an absent query: processSessionFiles returns the sessions it
\* returns for the same files and options without the query.
C25_BlankQueryIsNoQuery ==
    (pc = "searched" /\ options.query.given
        /\ WithoutTerms(options.query.text)) =>
        results = processSessionFiles(files,
                      [options EXCEPT !.query = NoString], now)

\* what the code does with a whitespace-only query: no session is returned
C25_BlankQueryReturnsNothing ==
    (pc = "searched" /\ options.query.given
        /\ options.query.text # <<>> /\ WithoutTerms(options.query.text)) =>
        results = <<>>

(***************************************************************************)
(* Specification SpecTurns: parseSessionContent applied to transcripts     *)
(* whose user turns carry several text blocks.                             *)
(***************************************************************************)
sFirstText == <<"f", "i", "x", " ", "i", "t">>
sSecondText == <<"a", "n", "d", " ", "t", "e", "s", "t">>

\* one user turn whose content holds two text blocks
PiUserTwoTexts ==
    [PiUser EXCEPT
        !.message = Message("user",
            ArrContent(<<TextBlock(sFirstText), TextBlock(sSecondText)>>),
            "", NoUsage)]

TurnLinePool ==
    <<ClaudeUser, ClaudeUserBlocks, ClaudeAssistantEdit, PiSession, PiUser,
      PiUserTwoTexts, PiAssistantWrite>>

InitTurns ==
    /\ pc = "parse"
    /\ \E ix \in IndexSeqs(Len(TurnLinePool), MaxLines) :
           content = Pick(TurnLinePool, ix)
    /\ sessionId = sPlainPath
    /\ parsed = Null
    /\ ScoreIdle
    /\ SearchIdle
    /\ FilterIdle
    /\ DirsIdle

SpecTurns == InitTurns /\ [][NextParse]_vars

(***************************************************************************)
(* Claims about the number of user messages.                               *)
(***************************************************************************)
\* the user turns of the transcript, by position
UserTurns(lines) ==
    {i \in 1..Len(lines) :
        /\ lines[i].kind = "object"
        /\ IF lines[1].type = "session"
           THEN lines[i].type = "message" /\ lines[i].message.role = "user"
           ELSE lines[i].type = "user"}

\* C26: in every returned record each user turn contributes at most one
\* entry to userMessages, so userMessages.length never exceeds the number
\* of user turns nor messageCount, in both dialects.
C26_AtMostOneMessagePerTurn ==
    Returned =>
        /\ Len(parsed.userMessages) <= Cardinality(UserTurns(content))
        /\ Len(parsed.userMessages) <= parsed.messageCount

\* the statement restricted to transcripts of the Claude dialect
C26_HoldsForClaude ==
    (Returned /\ content[1].type # "session") =>
        /\ Len(parsed.userMessages) <= Cardinality(UserTurns(content))
        /\ Len(parsed.userMessages) <= parsed.messageCount

====
